---------------------------- MODULE Spec2Model ----------------------------
(***************************************************************************)
(* A model of xiaohongshu-mcp-python: the cookie store (browser/cookies.py),*)
(* the session manager BrowserManager.get_page (browser/driver.py), the    *)
(* publish entry points (publish.py, server.py), the login-state detector  *)
(* and the login flow (xiaohongshu/login.py) and the publish flow          *)
(* (xiaohongshu/publish.py).                                               *)
(*                                                                         *)
(* The module holds several specifications over one set of variables; each *)
(* specification moves its own group of variables and leaves the others at *)
(* their idle values:                                                      *)
(*   SpecStore    the cookie store used on its own (save / load / clear)   *)
(*   SpecSession  BrowserManager.get_page, session after session           *)
(*   SpecEntry    the two publish entry points up to the publish flow      *)
(*   SpecLogin    XiaohongshuLogin.check_login_status                      *)
(*   SpecLoginFlow  XiaohongshuLogin.login                                 *)
(*   SpecPublish  XiaohongshuPublish.publish_content                       *)
(*   SpecRace     two get_page sessions at the same time on one cookie file*)
(***************************************************************************)
EXTENDS Integers, Sequences, FiniteSets, TLC

VARIABLES
    \* ---- cookie file on disk (cookies.py), shared by store and session
    file,         \* [exists, data]: data is the file's JSON text as tokens
    \* ---- cookie store used directly (SpecStore)
    storeOp,      \* last CookieManager operation: "none","save","load","clear","write"
    storeRaised,  \* whether that operation raised
    loaded,       \* what the last load_cookies() returned
    lastSaved,    \* [has, val]: list of the last successful save_cookies
                  \* that no later writer has touched
    \* ---- one get_page session (SpecSession)
    pc,           \* position inside get_page
    browser, context, page,  \* "none" | "open" | "closed"
    ctxCookies,   \* cookies held by the live browser context
    current,      \* current_cookies read at teardown (driver.py:60)
    calls,        \* engine / store calls made by this session, in order
    faults,       \* calls that raised because the engine or the disk failed
    exc,          \* exception leaving get_page ("none" if none)
    bodyExc,      \* exception the caller's body raised ("none" if none)
    fileAtExit,   \* the cookie file when the body handed control back
    \* ---- publish entry points (SpecEntry)
    entry,        \* "cli" | "tool"
    req,          \* the Publish Request [title, content, images]
    epc,          \* position inside the entry point
    rejected,     \* the entry point's own validation refused the request
    launched,     \* a browser was launched for this invocation
    navigated,    \* a page navigation was issued for this invocation
    report,       \* what the invocation reported
    is_logged_in, \* what the entry point's login check returned
    flowStarted,  \* publish_content was called
    logged,       \* outcomes the entry point wrote to its log
    sessionEnd,   \* how the teardown of the entry point's session went
    \* ---- login-state detector (SpecLogin)
    lpc,          \* position inside check_login_status
    dom,          \* what each probe of the page would answer
    probes,       \* probes evaluated so far, in order
    sidx,         \* index of the next secondary indicator to try
    result,       \* return value of check_login_status ("none" until it returns)
    \* ---- XiaohongshuLogin.login (SpecLoginFlow)
    loginPc,      \* position inside login()
    loginCalls,   \* page calls and sub-calls made by login() itself, in order
    loginEvent,   \* what decided the outcome of login() ("none" until then)
    loginResult,  \* return value of login() ("none" until it returns)
    \* ---- XiaohongshuPublish.publish_content (SpecPublish)
    ppc,          \* position inside publish_content
    image_paths,  \* the image_paths argument
    plog,         \* page calls made and waits satisfied by the flow, in order
    psel,         \* index of the next candidate in the selector list at hand
    attempt,      \* editor-readiness polling: iterations started so far
    pmarks,       \* milestones the flow has reached (waits satisfied,
                  \* actions completed)
    tabs,         \* number of div.creator-tab elements listed by the tab stage
    pollInputs,   \* the input elements listed by the last polling iteration
    title_input,  \* _fill_title: candidate whose element was found (0: None)
    p_elements,   \* _find_textbox_by_placeholder: the p elements it listed
    content_element,  \* _fill_description: way that found the body target
    pfailAt,      \* stage in which the flow failed ("none" if it has not)
    pfail,        \* message of the exception logged at publish.py:53
    presult,      \* return value of publish_content ("none" until it returns)
    \* ---- two sessions at the same time (SpecRace)
    sess,         \* per session: position, engine handles, cookies
    handles,      \* number of engine objects created so far
    saveOrder     \* sessions in the order in which their save_cookies ended

storeVars   == <<storeOp, storeRaised, lastSaved>>
sessionVars == <<pc, browser, context, page, ctxCookies, current, calls,
                 faults, exc, bodyExc, fileAtExit>>
entryVars   == <<entry, req, epc, rejected, launched, navigated, report,
                 is_logged_in, flowStarted, logged, sessionEnd>>
loginVars   == <<lpc, dom, probes, sidx, result>>
loginFlowVars == <<loginPc, loginCalls, loginEvent, loginResult>>
fillVars    == <<title_input, p_elements, content_element>>
publishVars == <<ppc, image_paths, plog, psel, attempt, pmarks, tabs,
                 pollInputs, fillVars, pfailAt, pfail, presult>>
raceVars    == <<sess, handles, saveOrder>>
vars        == <<file, loaded, storeVars, sessionVars, entryVars, loginVars,
                 loginFlowVars, publishVars, raceVars>>

(***************************************************************************)
(* Bounds of the model.                                                    *)
(***************************************************************************)
\* longest cookie list handed to save_cookies or held by a context
MaxCookies == 2
\* longest image list of a Publish Request
MaxImages == 2

(***************************************************************************)
(* Python values and JSON text.  A cookie record is a dict from keys to    *)
(* scalar values; a value carries its Python type.  The file's text is a   *)
(* sequence of JSON tokens.                                                *)
(***************************************************************************)
PyStr(s)  == [ty |-> "str",  v |-> s]
PyBool(b) == [ty |-> "bool", v |-> IF b THEN "True" ELSE "False"]
PyNum(n)  == [ty |-> "num",  v |-> n]

Punct(s) == [s |-> s, t |-> "p"]
JStr(s)  == [s |-> s, t |-> "s"]
JLit(s)  == [s |-> s, t |-> "l"]
JNum(s)  == [s |-> s, t |-> "n"]
Eof      == [s |-> "", t |-> "eof"]

\* Cookie records as the browser engine produces them (context.cookies()).
CookieSid == [name |-> PyStr("web_session"), value |-> PyStr("abc"),
              expires |-> PyNum("1893456000.5"), secure |-> PyBool(TRUE)]
CookieUid == [name |-> PyStr("a1"), value |-> PyStr("\"x\""),
              expires |-> PyNum("-1"), secure |-> PyBool(FALSE)]
CookieLoc == [name |-> PyStr("xsecappid"), value |-> PyStr(""),
              expires |-> PyNum("-1"), secure |-> PyBool(FALSE)]
Cookies == {CookieSid, CookieUid, CookieLoc}

\* A well-formed JSON object that is not a cookie record (no name, no value).
NotACookie == [note |-> PyStr("edited by hand")]

\* Insertion order of the keys of a dict, which json.dump follows.
KeyOrder == <<"name", "value", "expires", "secure", "note">>

SeqsUpTo(S, n) == UNION {[1..k -> S] : k \in 0..n}
\* any list of cookie records (an argument of save_cookies)
CookieLists == SeqsUpTo(Cookies, MaxCookies)
\* lists a browser context can hold: no record twice
ContextCookieLists ==
    {L \in CookieLists : \A i, j \in DOMAIN L : L[i] = L[j] => i = j}

(***************************************************************************)
(* json.dump(cookies, f, indent=2, ensure_ascii=False): cookies.py:27      *)
(***************************************************************************)
PyToJson_Repr(v) ==
    CASE v.ty = "str"  -> JStr(v.v)
      [] v.ty = "bool" -> JLit(v.v)
      [] v.ty = "num"  -> JNum(v.v)

PyToJson(v) ==
    CASE v.ty = "str"  -> JStr(v.v)
      [] v.ty = "bool" -> JLit(IF v.v = "True" THEN "true" ELSE "false")
      [] v.ty = "num"  -> JNum(v.v)

KeysOf(d) == SelectSeq(KeyOrder, LAMBDA k : k \in DOMAIN d)

RECURSIVE DumpPairs(_, _)
DumpPairs(d, ks) ==
    IF ks = <<>> THEN <<>>
    ELSE <<JStr(ks[1]), Punct(":"), PyToJson(d[ks[1]])>>
         \o (IF Len(ks) > 1 THEN <<Punct(",")>> ELSE <<>>)
         \o DumpPairs(d, Tail(ks))

DumpDict(d) == <<Punct("{")>> \o DumpPairs(d, KeysOf(d)) \o <<Punct("}")>>

RECURSIVE DumpItems(_)
DumpItems(L) ==
    IF L = <<>> THEN <<>>
    ELSE DumpDict(L[1])
         \o (IF Len(L) > 1 THEN <<Punct(",")>> ELSE <<>>)
         \o DumpItems(Tail(L))

json_dump(L) == <<Punct("[")>> \o DumpItems(L) \o <<Punct("]")>>

(***************************************************************************)
(* json.load(f): cookies.py:41.  A recursive-descent reading of the token  *)
(* text.  The files of this model hold a list of flat objects or a text    *)
(* cut short; a text that does not read as such a list is a decode error.  *)
(***************************************************************************)
Tok(toks, i) == IF i \in 1..Len(toks) THEN toks[i] ELSE Eof

IsScalar(tok) ==
    \/ tok.t = "s"
    \/ tok.t = "n"
    \/ tok.t = "l" /\ tok.s \in {"true", "false"}

JsonToPy(tok) ==
    CASE tok.t = "s" -> PyStr(tok.s)
      [] tok.t = "n" -> PyNum(tok.s)
      [] tok.t = "l" -> PyBool(tok.s = "true")

\* the dict built from key/value pairs read left to right (a later key wins)
DictOf(pairs) ==
    [k \in {pairs[j][1] : j \in DOMAIN pairs} |->
        LET last == CHOOSE j \in DOMAIN pairs :
                        /\ pairs[j][1] = k
                        /\ \A h \in DOMAIN pairs : pairs[h][1] = k => h <= j
        IN  pairs[last][2]]

ParseFail == [ok |-> FALSE, val |-> <<>>, next |-> 0]

RECURSIVE ParsePairs(_, _, _)
ParsePairs(toks, i, acc) ==
    IF /\ Tok(toks, i).t = "s"
       /\ Tok(toks, i + 1) = Punct(":")
       /\ IsScalar(Tok(toks, i + 2))
    THEN LET acc2 == Append(acc, <<Tok(toks, i).s, JsonToPy(Tok(toks, i + 2))>>)
         IN  IF Tok(toks, i + 3) = Punct(",")
             THEN ParsePairs(toks, i + 4, acc2)
             ELSE IF Tok(toks, i + 3) = Punct("}")
                  THEN [ok |-> TRUE, val |-> <<DictOf(acc2)>>, next |-> i + 4]
                  ELSE ParseFail
    ELSE ParseFail

ParseDict(toks, i) ==
    IF Tok(toks, i) # Punct("{") THEN ParseFail
    ELSE IF Tok(toks, i + 1) = Punct("}")
         THEN [ok |-> TRUE, val |-> <<DictOf(<<>>)>>, next |-> i + 2]
         ELSE ParsePairs(toks, i + 1, <<>>)

RECURSIVE ParseItems(_, _, _)
ParseItems(toks, i, acc) ==
    LET d == ParseDict(toks, i)
    IN  IF ~d.ok THEN ParseFail
        ELSE IF Tok(toks, d.next) = Punct(",")
             THEN ParseItems(toks, d.next + 1, acc \o d.val)
             ELSE IF Tok(toks, d.next) = Punct("]")
                  THEN [ok |-> TRUE, val |-> acc \o d.val, next |-> d.next + 1]
                  ELSE ParseFail

json_load(toks) ==
    IF Tok(toks, 1) # Punct("[") THEN ParseFail
    ELSE LET r == IF Tok(toks, 2) = Punct("]")
                  THEN [ok |-> TRUE, val |-> <<>>, next |-> 3]
                  ELSE ParseItems(toks, 2, <<>>)
         IN  IF r.ok /\ r.next = Len(toks) + 1 THEN r ELSE ParseFail

(***************************************************************************)
(* CookieManager (cookies.py)                                              *)
(***************************************************************************)
NoFile == [exists |-> FALSE, data |-> <<>>]
FileOf(toks) == [exists |-> TRUE, data |-> toks]

\* What a write that breaks off leaves behind: open(.., 'w') has already
\* emptied the file, and json.dump may have written part of the text.
Truncations(toks) ==
    {SubSeq(toks, 1, k) : k \in {0, Len(toks) \div 2, Len(toks) - 1}}

\* save_cookies (cookies.py:23-31).  how = "ok": the text is written;
\* "open": open() raises and the file is untouched; "write": the write
\* breaks off.  In the last two cases the exception is re-raised (line 31).
SaveOutcomes == {"ok", "open", "write"}

save_cookies_Files(f, L, how) ==
    CASE how = "ok"    -> {FileOf(json_dump(L))}
      [] how = "open"  -> {f}
      [] how = "write" -> {FileOf(t) : t \in Truncations(json_dump(L))}

save_cookies_Raises(how) == how # "ok"

\* load_cookies (cookies.py:33-47).  readOk = FALSE: open()/read raises.
load_cookies(f, readOk) ==
    IF ~f.exists THEN <<>>                       \* lines 36-38
    ELSE IF ~readOk THEN <<>>                    \* lines 45-47
    ELSE IF ~json_load(f.data).ok THEN <<>>      \* lines 45-47
    ELSE json_load(f.data).val                   \* lines 40-44

\* clear_cookies (cookies.py:49-56)
clear_cookies(f) == NoFile


(***************************************************************************)
(* Contents the cookie file can have when an operation starts: no file, a  *)
(* list written by an earlier save, a text cut short by a broken write or  *)
(* a concurrent writer, and well-formed JSON that holds no cookie records  *)
(* (the file is documented as human-inspectable and can be edited).        *)
(***************************************************************************)
SavedFiles  == {FileOf(json_dump(L)) : L \in CookieLists}
BrokenFiles == {FileOf(t) : t \in Truncations(json_dump(<<CookieSid>>))}
ForeignFile == FileOf(json_dump(<<NotACookie>>))
InitFiles   == {NoFile} \cup SavedFiles \cup BrokenFiles \cup {ForeignFile}

NoneSaved == [val |-> <<>>, has |-> FALSE]

(***************************************************************************)
(* Idle values of each group of variables.                                 *)
(***************************************************************************)
StoreIdle ==
    /\ storeOp = "none" /\ storeRaised = FALSE /\ lastSaved = NoneSaved

SessionIdle ==
    /\ pc = "idle" /\ browser = "none" /\ context = "none" /\ page = "none"
    /\ ctxCookies = <<>> /\ current = <<>> /\ calls = <<>> /\ faults = {}
    /\ exc = "none" /\ bodyExc = "none" /\ fileAtExit = NoFile

EntryIdle ==
    /\ entry = "none" /\ req = [title |-> <<>>, content |-> <<>>, images |-> <<>>]
    /\ epc = "idle" /\ rejected = FALSE /\ launched = FALSE
    /\ navigated = FALSE /\ report = "none"
    /\ is_logged_in = "none" /\ flowStarted = FALSE /\ logged = {}
    /\ sessionEnd = "none"

LoginIdle ==
    /\ lpc = "idle" /\ dom = <<>> /\ probes = <<>> /\ sidx = 0
    /\ result = "none"

LoginFlowIdle ==
    /\ loginPc = "idle" /\ loginCalls = <<>> /\ loginEvent = "none"
    /\ loginResult = "none"

PublishIdle ==
    /\ ppc = "idle" /\ image_paths = <<>> /\ plog = <<>> /\ psel = 0
    /\ attempt = 0 /\ pmarks = {} /\ tabs = 0 /\ pollInputs = <<>>
    /\ title_input = 0 /\ p_elements = <<>> /\ content_element = "none"
    /\ pfailAt = "none" /\ pfail = <<>> /\ presult = "none"

RaceIdle ==
    /\ sess = <<>> /\ handles = 0 /\ saveOrder = <<>>

(***************************************************************************)
(* SpecStore: CookieManager used on its own.                               *)
(***************************************************************************)
InitStore ==
    /\ LoginFlowIdle /\ PublishIdle /\ RaceIdle
    /\ file \in InitFiles
    /\ loaded = <<>>
    /\ StoreIdle /\ SessionIdle /\ EntryIdle /\ LoginIdle

\* CookieManager.save_cookies(L)
StoreSave ==
    \E L \in CookieLists, how \in SaveOutcomes :
      \E f2 \in save_cookies_Files(file, L, how) :
        /\ file' = f2
        /\ storeOp' = "save"
        /\ storeRaised' = save_cookies_Raises(how)
        /\ lastSaved' = CASE how = "ok"    -> [val |-> L, has |-> TRUE]
                          [] how = "open"  -> lastSaved
                          [] how = "write" -> NoneSaved
        /\ UNCHANGED <<loaded, sessionVars, entryVars, loginVars,
                       loginFlowVars, publishVars, raceVars>>

\* CookieManager.load_cookies(); a read that fails is caught inside it
StoreLoad ==
    \E readFails \in BOOLEAN :
        /\ loaded' = load_cookies(file, ~readFails)
        /\ storeOp' = IF readFails THEN "load_ioerror" ELSE "load"
        /\ storeRaised' = FALSE
        /\ UNCHANGED <<file, lastSaved, sessionVars, entryVars, loginVars,
                       loginFlowVars, publishVars, raceVars>>

\* CookieManager.clear_cookies(); a failing unlink is caught and logged
StoreClear ==
    \E unlinkOk \in BOOLEAN :
        /\ file' = IF unlinkOk THEN clear_cookies(file) ELSE file
        /\ storeOp' = "clear"
        /\ storeRaised' = FALSE
        /\ lastSaved' = IF unlinkOk /\ file.exists THEN NoneSaved ELSE lastSaved
        /\ UNCHANGED <<loaded, sessionVars, entryVars, loginVars,
                       loginFlowVars, publishVars, raceVars>>

\* another writer (a concurrent invocation, an editor) replaces the file
StoreOtherWriter ==
    \E f2 \in InitFiles :
        /\ f2 # file
        /\ file' = f2
        /\ storeOp' = "write"
        /\ storeRaised' = FALSE
        /\ lastSaved' = NoneSaved
        /\ UNCHANGED <<loaded, sessionVars, entryVars, loginVars,
                       loginFlowVars, publishVars, raceVars>>

NextStore == StoreSave \/ StoreLoad \/ StoreClear \/ StoreOtherWriter

SpecStore == InitStore /\ [][NextStore]_vars

\* C5: a load_cookies() that follows a successful save_cookies(L), with no
\* writer in between and the file readable, returns a list equal to L
\* record by record.
C5_RoundTrip ==
    (storeOp = "load" /\ lastSaved.has) => (loaded = lastSaved.val /\ ~storeRaised)

\* C5 witness: a two-record list, with a string holding a quote, a float
\* and both booleans, has been saved and loaded back.
C5_Witness ==
    /\ storeOp = "load" /\ lastSaved.has
    /\ lastSaved.val = <<CookieUid, CookieSid>>
    /\ loaded = <<CookieUid, CookieSid>>


(***************************************************************************)
(* SpecSession: BrowserManager.get_page (driver.py:19-67), one invocation  *)
(* after another on the same cookie file.                                  *)
(*                                                                         *)
(* Every awaited engine call and every disk access can raise; which ones   *)
(* did is recorded in faults.  An exception raised inside a finally block  *)
(* replaces the one in flight, so exc is always the last one raised.       *)
(* Closing a context closes its pages and closing a browser closes its     *)
(* contexts and pages (Playwright's documented close semantics).           *)
(***************************************************************************)
Call(name)    == calls' = Append(calls, name)
Called(name)  == \E i \in DOMAIN calls : calls[i] = name
Fault(name)   == faults' = faults \cup {name}
CloseIfOpen(r) == IF r = "open" THEN "closed" ELSE r

\* where an exception raised between lines 39 and 66 lands: the outer
\* finally (driver.py:66-67)
OuterFinally_Missing == "done"

OuterFinally == "close_browser"

\* `if current_cookies:` (driver.py:61) and `if cookies:` (driver.py:73)
SaveGuard(cs) == cs # <<>>

\* what context.add_cookies accepts: every record names a cookie and its value
ValidCookie(c) == {"name", "value"} \subseteq DOMAIN c

SessionFiles ==
    {NoFile} \cup {FileOf(json_dump(L)) : L \in ContextCookieLists}
             \cup BrokenFiles \cup {ForeignFile}

InitSession ==
    /\ LoginFlowIdle /\ PublishIdle /\ RaceIdle
    /\ file \in SessionFiles
    /\ loaded = <<>>
    /\ StoreIdle /\ EntryIdle /\ LoginIdle
    /\ pc = "launch" /\ browser = "none" /\ context = "none" /\ page = "none"
    /\ ctxCookies = <<>> /\ current = <<>> /\ calls = <<>> /\ faults = {}
    /\ exc = "none" /\ bodyExc = "none" /\ fileAtExit = NoFile

\* playwright.chromium.launch (driver.py:37), outside every try
Launch ==
    /\ pc = "launch"
    /\ Call("launch")
    /\ \E raises \in BOOLEAN :
         IF ~raises THEN /\ browser' = "open" /\ pc' = "new_context"
                         /\ UNCHANGED <<faults, exc>>
         ELSE /\ Fault("launch") /\ exc' = "launch" /\ pc' = "done"
              /\ UNCHANGED browser
    /\ UNCHANGED <<file, loaded, context, page, ctxCookies, current, bodyExc,
                   fileAtExit, storeVars, entryVars, loginVars,
                   loginFlowVars, publishVars, raceVars>>

\* browser.new_context (driver.py:41-45)
NewContext ==
    /\ pc = "new_context"
    /\ Call("new_context")
    /\ \E raises \in BOOLEAN :
         IF ~raises THEN /\ context' = "open" /\ pc' = "load_cookies"
                         /\ UNCHANGED <<faults, exc>>
         ELSE /\ Fault("new_context") /\ exc' = "new_context"
              /\ pc' = OuterFinally /\ UNCHANGED context
    /\ UNCHANGED <<file, loaded, browser, page, ctxCookies, current, bodyExc,
                   fileAtExit, storeVars, entryVars, loginVars,
                   loginFlowVars, publishVars, raceVars>>

\* cookies = self.cookie_manager.load_cookies(); if cookies: (driver.py:48-49)
LoadCookies ==
    /\ pc = "load_cookies"
    /\ Call("load_cookies")
    /\ \E readFails \in BOOLEAN :
         /\ loaded' = load_cookies(file, ~readFails)
         /\ faults' = IF file.exists /\ readFails
                      THEN faults \cup {"read_file"} ELSE faults
    /\ pc' = IF loaded' # <<>> THEN "add_cookies" ELSE "new_page"
    /\ UNCHANGED <<file, browser, context, page, ctxCookies, current, exc,
                   bodyExc, fileAtExit, storeVars, entryVars, loginVars,
                   loginFlowVars, publishVars, raceVars>>

\* await context.add_cookies(cookies) (driver.py:50)
AddCookies ==
    /\ pc = "add_cookies"
    /\ Call("add_cookies")
    /\ IF \A i \in DOMAIN loaded : ValidCookie(loaded[i])
       THEN \E raises \in BOOLEAN :
              IF ~raises THEN /\ ctxCookies' = loaded /\ pc' = "new_page"
                              /\ UNCHANGED <<faults, exc>>
              ELSE /\ Fault("add_cookies") /\ exc' = "add_cookies"
                   /\ pc' = OuterFinally /\ UNCHANGED ctxCookies
       ELSE \* the engine refuses records that are not cookies
            /\ exc' = "add_cookies" /\ pc' = OuterFinally
            /\ UNCHANGED <<faults, ctxCookies>>
    /\ UNCHANGED <<file, loaded, browser, context, page, current, bodyExc,
                   fileAtExit, storeVars, entryVars, loginVars,
                   loginFlowVars, publishVars, raceVars>>

\* page = await context.new_page(); yield page (driver.py:54-57)
NewPage ==
    /\ pc = "new_page"
    /\ \E raises \in BOOLEAN :
         IF ~raises THEN /\ page' = "open" /\ pc' = "body"
                         /\ calls' = calls \o <<"new_page", "yield">>
                         /\ UNCHANGED <<faults, exc>>
         ELSE /\ Call("new_page")
              /\ Fault("new_page") /\ exc' = "new_page"
              /\ pc' = OuterFinally /\ UNCHANGED page
    /\ UNCHANGED <<file, loaded, browser, context, ctxCookies, current,
                   bodyExc, fileAtExit, storeVars, entryVars, loginVars,
                   loginFlowVars, publishVars, raceVars>>

\* the caller's body drives the page: the site sets or drops cookies
BodyBrowse ==
    /\ pc = "body"
    /\ \E cs \in ContextCookieLists : cs # ctxCookies /\ ctxCookies' = cs
    /\ UNCHANGED <<file, loaded, pc, browser, context, page, current, calls,
                   faults, exc, bodyExc, fileAtExit, storeVars, entryVars,
                   loginVars, loginFlowVars, publishVars, raceVars>>

\* what save_current_cookies adds to the call log when its guard lets it
\* call cookie_manager.save_cookies (driver.py:73-74)
ManualSaveCalls ==
    <<"save_current_cookies", "save_current_cookies.save_cookies">>

\* the caller's body calls save_current_cookies(page) (driver.py:69-75;
\* login.py:76 is its one call site); an exception of it ends the body
BodySaveCurrent ==
    /\ pc = "body"
    /\ ~Called("save_current_cookies")
    /\ \E raises \in BOOLEAN, how \in SaveOutcomes :
         /\ calls' = calls \o (IF ~raises /\ SaveGuard(ctxCookies)
                               THEN ManualSaveCalls
                               ELSE <<"save_current_cookies">>)
         /\ IF raises
            THEN /\ Fault("save_current_cookies") /\ bodyExc' = "raise"
                 /\ exc' = "raise" /\ pc' = "capture"
                 /\ file' = file /\ fileAtExit' = file
            ELSE IF ~SaveGuard(ctxCookies)
            THEN UNCHANGED <<file, faults, bodyExc, exc, pc, fileAtExit>>
            ELSE \E f2 \in save_cookies_Files(file, ctxCookies, how) :
                   /\ file' = f2
                   /\ IF save_cookies_Raises(how)
                      THEN /\ Fault("save_current_cookies")
                           /\ bodyExc' = "raise"
                           /\ exc' = "raise" /\ pc' = "capture"
                           /\ fileAtExit' = f2
                      ELSE UNCHANGED <<faults, bodyExc, exc, pc, fileAtExit>>
    /\ UNCHANGED <<loaded, browser, context, page, ctxCookies, current,
                   storeVars, entryVars, loginVars,
                   loginFlowVars, publishVars, raceVars>>

\* the body ends: it returns, raises, or is interrupted during a wait
BodyExit ==
    /\ pc = "body"
    /\ \E how \in {"none", "raise", "interrupt"} :
         /\ bodyExc' = how /\ exc' = how
    /\ pc' = "capture"
    /\ fileAtExit' = file
    /\ UNCHANGED <<file, loaded, browser, context, page, ctxCookies, current,
                   calls, faults, storeVars, entryVars, loginVars,
                   loginFlowVars, publishVars, raceVars>>

\* finally: current_cookies = await context.cookies() (driver.py:58-61)
Capture ==
    /\ pc = "capture"
    /\ Call("context.cookies")
    /\ \E raises \in BOOLEAN :
         IF ~raises THEN /\ current' = ctxCookies
                         /\ pc' = IF SaveGuard(ctxCookies) THEN "save" ELSE "close_page"
                         /\ UNCHANGED <<faults, exc>>
         ELSE /\ Fault("context.cookies") /\ exc' = "context.cookies"
              /\ pc' = OuterFinally /\ UNCHANGED current
    /\ UNCHANGED <<file, loaded, browser, context, page, ctxCookies, bodyExc,
                   fileAtExit, storeVars, entryVars, loginVars,
                   loginFlowVars, publishVars, raceVars>>

\* self.cookie_manager.save_cookies(current_cookies) (driver.py:62)
Save ==
    /\ pc = "save"
    /\ Call("save_cookies")
    /\ \E how \in SaveOutcomes :
         \E f2 \in save_cookies_Files(file, current, how) :
           /\ file' = f2
           /\ IF save_cookies_Raises(how)
              THEN /\ Fault("save_cookies") /\ exc' = "save_cookies"
                   /\ pc' = OuterFinally
              ELSE /\ pc' = "close_page" /\ UNCHANGED <<faults, exc>>
    /\ UNCHANGED <<loaded, browser, context, page, ctxCookies, current,
                   bodyExc, fileAtExit, storeVars, entryVars, loginVars,
                   loginFlowVars, publishVars, raceVars>>

\* await page.close() (driver.py:64)
ClosePage ==
    /\ pc = "close_page"
    /\ Call("page.close")
    /\ \E raises \in BOOLEAN :
         IF ~raises THEN /\ page' = "closed" /\ pc' = "close_context"
                         /\ UNCHANGED <<faults, exc>>
         ELSE /\ Fault("page.close") /\ exc' = "page.close"
              /\ pc' = OuterFinally /\ UNCHANGED page
    /\ UNCHANGED <<file, loaded, browser, context, ctxCookies, current,
                   bodyExc, fileAtExit, storeVars, entryVars, loginVars,
                   loginFlowVars, publishVars, raceVars>>

\* await context.close() (driver.py:65)
CloseContext ==
    /\ pc = "close_context"
    /\ Call("context.close")
    /\ \E raises \in BOOLEAN :
         IF ~raises THEN /\ context' = "closed" /\ page' = CloseIfOpen(page)
                         /\ UNCHANGED <<faults, exc>>
         ELSE /\ Fault("context.close") /\ exc' = "context.close"
              /\ UNCHANGED <<context, page>>
    /\ pc' = OuterFinally
    /\ UNCHANGED <<file, loaded, browser, ctxCookies, current, bodyExc,
                   fileAtExit, storeVars, entryVars, loginVars,
                   loginFlowVars, publishVars, raceVars>>

\* finally: await browser.close() (driver.py:66-67)
CloseBrowser ==
    /\ pc = "close_browser"
    /\ Call("browser.close")
    /\ \E raises \in BOOLEAN :
         IF ~raises THEN /\ browser' = "closed"
                         /\ context' = CloseIfOpen(context)
                         /\ page' = CloseIfOpen(page)
                         /\ UNCHANGED <<faults, exc>>
         ELSE /\ Fault("browser.close") /\ exc' = "browser.close"
              /\ UNCHANGED <<browser, context, page>>
    /\ pc' = "done"
    /\ UNCHANGED <<file, loaded, ctxCookies, current, bodyExc, fileAtExit,
                   storeVars, entryVars, loginVars,
                   loginFlowVars, publishVars, raceVars>>

\* the next top-level operation starts its own session on the same file
NextInvocation ==
    /\ pc = "done"
    /\ pc' = "launch" /\ browser' = "none" /\ context' = "none"
    /\ page' = "none" /\ ctxCookies' = <<>> /\ current' = <<>>
    /\ calls' = <<>> /\ faults' = {} /\ exc' = "none" /\ bodyExc' = "none"
    /\ fileAtExit' = NoFile /\ loaded' = <<>>
    /\ UNCHANGED <<file, storeVars, entryVars, loginVars,
                   loginFlowVars, publishVars, raceVars>>

NextSession ==
    \/ Launch \/ NewContext \/ LoadCookies \/ AddCookies \/ NewPage
    \/ BodyExit \/ BodyBrowse \/ BodySaveCurrent
    \/ Capture \/ Save \/ ClosePage \/ CloseContext \/ CloseBrowser
    \/ NextInvocation

SpecSession == InitSession /\ [][NextSession]_vars

Yielded == Called("yield")

\* the calls get_page made after the body handed control back
RECURSIVE After(_, _)
After(s, name) ==
    IF s = <<>> THEN <<>>
    ELSE IF s[1] = name THEN Tail(s) ELSE After(Tail(s), name)

TeardownCalls ==
    SelectSeq(After(calls, "yield"),
              LAMBDA c : c \notin {ManualSaveCalls[1], ManualSaveCalls[2]})


TeardownFaults == {"context.cookies", "save_cookies"}

AllClosed ==
    /\ browser = "closed"
    /\ context \in {"none", "closed"}
    /\ page \in {"none", "closed"}

\* C1 (as claimed): whenever the page was yielded, get_page exits only after
\* its teardown has made, in this order, the cookie capture (and save),
\* page.close, context.close and browser.close.
C1_AsClaimed ==
    (pc = "done" /\ Yielded) =>
        TeardownCalls \in
          { <<"context.cookies", "save_cookies", "page.close",
              "context.close", "browser.close">>,
            <<"context.cookies", "page.close", "context.close",
              "browser.close">> }

\* C2 (as claimed): a close step that raises does not stop the later close
\* steps: after page.close raised, context.close and browser.close are
\* still called; after context.close raised, browser.close is still called.
C2_AsClaimed ==
    pc = "done" =>
        /\ "page.close" \in faults =>
               Called("context.close") /\ Called("browser.close")
        /\ "context.close" \in faults => Called("browser.close")

\* C3 (as claimed): when reading or saving the cookies fails at exit, page,
\* context and browser are still closed and the exception leaving get_page
\* is not the failure of the save.
C3_AsClaimed ==
    (pc = "done" /\ faults \cap TeardownFaults # {}) =>
        /\ Called("page.close") /\ Called("context.close")
        /\ Called("browser.close")
        /\ exc \notin TeardownFaults

C6_AsClaimed ==
    /\ (/\ pc \in {"add_cookies", "new_page"}
        /\ \/ ~file.exists
           \/ "read_file" \in faults
           \/ ~json_load(file.data).ok)
       => loaded = <<>>
    /\ (pc = "done" /\ faults \subseteq {"read_file"}) => Yielded

\* C7 (as claimed): after a session in which no call failed, the cookie
\* file holds exactly the cookie list the context had at session end, also
\* when that list is empty.
C7_AsClaimed ==
    (pc = "done" /\ Yielded /\ faults = {}) =>
        load_cookies(file, TRUE) = ctxCookies

\* What the teardown does to the file, whatever the body did: a non-empty
\* cookie list that was read and written without an I/O failure replaces the
\* file's content; with no cookies at session end, or when the cookies
\* could not be read, the file is left as the body left it; a failed write
\* leaves the file untouched or no longer parseable.
TeardownFileEffect ==
    (pc = "done" /\ Yielded) =>
        CASE "context.cookies" \in faults -> file = fileAtExit
          [] current = <<>>               -> file = fileAtExit
          [] "save_cookies" \in faults    ->
                 \/ file = fileAtExit
                 \/ file.exists /\ ~json_load(file.data).ok
          [] OTHER ->
                 /\ current = ctxCookies
                 /\ file = FileOf(json_dump(current))
                 /\ load_cookies(file, TRUE) = current

\* A session seeded with stored cookies that ended with none: the file
\* still holds the cookies stored before.
StaleCookiesKept ==
    /\ pc = "done" /\ Yielded /\ faults = {}
    /\ ctxCookies = <<>> /\ current = <<>>
    /\ file = fileAtExit
    /\ load_cookies(file, TRUE) = <<CookieSid, CookieUid>>


(***************************************************************************)
(* Publish Request validation.  A text is a sequence of characters; a path *)
(* is its suffix (Path.suffix) and what the file system holds there.       *)
(***************************************************************************)
Whitespace == {" ", "\t", "\n"}

RECURSIVE LStrip(_)
LStrip(s) ==
    IF s # <<>> /\ s[1] \in Whitespace THEN LStrip(Tail(s)) ELSE s

RECURSIVE RStrip(_)
RStrip(s) ==
    IF s # <<>> /\ s[Len(s)] \in Whitespace
    THEN RStrip(SubSeq(s, 1, Len(s) - 1)) ELSE s

\* str.strip()
strip(s) == RStrip(LStrip(s))

\* l blanks, c letters, t blanks
Text(l, c, t) ==
    [i \in 1..(l + c + t) |-> IF i <= l \/ i > l + c THEN " " ELSE "x"]

\* `len(title) > 40` (publish.py:138, server.py:130)
TitleMaxLen == 40

Titles ==
    {Text(l, c, t) : l \in {0, 1}, t \in {0, 1},
                     c \in {0, 1, TitleMaxLen - 1, TitleMaxLen, TitleMaxLen + 1}}
Contents == {Text(0, 0, 0), Text(2, 0, 0), Text(0, 3, 0), Text(1, 3, 1)}

ImgPng     == [suffix |-> ".png", kind |-> "file"]
ImgJpgCaps == [suffix |-> ".JPG", kind |-> "file"]
ImgBmp     == [suffix |-> ".bmp", kind |-> "file"]
ImgMissing == [suffix |-> ".png", kind |-> "missing"]
ImgDir     == [suffix |-> "",     kind |-> "dir"]
Images     == {ImgPng, ImgJpgCaps, ImgBmp, ImgMissing, ImgDir}

Requests ==
    [title : Titles, content : Contents, images : SeqsUpTo(Images, MaxImages)]

\* Path.exists(), Path.is_file(), str.lower() on the suffixes in use
exists(p)  == p.kind # "missing"
is_file(p) == p.kind = "file"
lower(x)   == CASE x = ".JPG" -> ".jpg" [] x = ".PNG" -> ".png" [] OTHER -> x

\* the list at publish.py:163
AllowedSuffixes == {".jpg", ".jpeg", ".png", ".gif", ".webp"}

\* validate_args (publish.py:129-168): TRUE when the request passes
validate_args(r) ==
    IF strip(r.title) = <<>> THEN FALSE              \* 134-136
    ELSE IF Len(r.title) > TitleMaxLen THEN FALSE    \* 138-140
    ELSE IF strip(r.content) = <<>> THEN FALSE       \* 143-145
    ELSE IF r.images = <<>> THEN FALSE               \* 148-150
    ELSE \A i \in DOMAIN r.images :                  \* 152-165
            /\ exists(r.images[i])
            /\ is_file(r.images[i])
            /\ lower(r.images[i].suffix) \in AllowedSuffixes

\* the checks at the head of xiaohongshu_publish (server.py:126-137)
tool_validate(r) ==
    IF strip(r.title) = <<>> THEN FALSE              \* 127-128
    ELSE IF Len(r.title) > TitleMaxLen THEN FALSE    \* 130-131
    ELSE IF strip(r.content) = <<>> THEN FALSE       \* 133-134
    ELSE IF r.images = <<>> THEN FALSE               \* 136-137
    ELSE TRUE

\* XiaohongshuPublish._validate_images (xiaohongshu/publish.py:56-72)
validate_images_ExistsOnly(images) ==
    IF images = <<>> THEN FALSE
    ELSE \A i \in DOMAIN images : exists(images[i])

validate_images(images) ==
    IF images = <<>> THEN FALSE
    ELSE \A i \in DOMAIN images : exists(images[i]) /\ is_file(images[i])

(***************************************************************************)
(* SpecEntry: the publish CLI (publish.py main_async) and the              *)
(* xiaohongshu_publish tool (server.py), from the request to the report.   *)
(* The session and the flows on the page are followed only as far as       *)
(* whether a browser was launched and whether a navigation was issued.     *)
(***************************************************************************)
InitEntry ==
    /\ LoginFlowIdle /\ PublishIdle /\ RaceIdle
    /\ file = NoFile /\ loaded = <<>>
    /\ StoreIdle /\ SessionIdle /\ LoginIdle
    /\ entry \in {"cli", "tool"}
    /\ req \in Requests
    /\ epc = "validate" /\ rejected = FALSE /\ launched = FALSE
    /\ navigated = FALSE /\ report = "none"
    /\ is_logged_in = "none" /\ flowStarted = FALSE /\ logged = {}
    /\ sessionEnd = "none"

\* publish.py:69-75: validate_args, sys.exit(1), then the --dry-run return
CliValidate ==
    /\ entry = "cli" /\ epc = "validate"
    /\ IF ~validate_args(req)
       THEN rejected' = TRUE /\ report' = "invalid" /\ epc' = "done"
       ELSE /\ rejected' = FALSE
            /\ \E dryRun \in BOOLEAN :
                 IF dryRun THEN report' = "dry_run_ok" /\ epc' = "done"
                 ELSE report' = report /\ epc' = "get_page"
    /\ UNCHANGED <<file, loaded, storeVars, sessionVars, loginVars,
                   entry, req, launched, navigated,
                   is_logged_in, flowStarted, logged, sessionEnd,
                   loginFlowVars, publishVars, raceVars>>

\* server.py:126-137
ToolValidate ==
    /\ entry = "tool" /\ epc = "validate"
    /\ IF ~tool_validate(req)
       THEN rejected' = TRUE /\ report' = "invalid" /\ epc' = "done"
       ELSE rejected' = FALSE /\ report' = report /\ epc' = "get_page"
    /\ UNCHANGED <<file, loaded, storeVars, sessionVars, loginVars,
                   entry, req, launched, navigated,
                   is_logged_in, flowStarted, logged, sessionEnd,
                   loginFlowVars, publishVars, raceVars>>

\* async with browser_manager.get_page() as page (publish.py:89,
\* server.py:150): the browser is launched; a failing start is reported
EntryGetPage ==
    /\ epc = "get_page"
    /\ launched' = TRUE
    /\ \E raises \in BOOLEAN :
         IF ~raises THEN epc' = "check_login" /\ report' = report
         ELSE epc' = "done" /\ report' = "error"
    /\ UNCHANGED <<file, loaded, storeVars, sessionVars, loginVars,
                   entry, req, rejected, navigated,
                   is_logged_in, flowStarted, logged, sessionEnd,
                   loginFlowVars, publishVars, raceVars>>

\* login_handler.check_login_status() (publish.py:91-96, server.py:152-156):
\* it navigates to the landing page first
EntryCheckLogin ==
    /\ epc = "check_login"
    /\ navigated' = TRUE
    /\ \E isLoggedIn \in BOOLEAN :
         IF isLoggedIn
         THEN /\ is_logged_in' = "true" /\ epc' = "publish"
              /\ UNCHANGED <<report, logged>>
         ELSE /\ is_logged_in' = "false" /\ epc' = "teardown"
              /\ report' = "not_logged_in"
              \* the CLI logs the line before sys.exit(1) (publish.py:95);
              \* the tool only returns it (server.py:156)
              /\ logged' = IF entry = "cli" THEN logged \cup {"not_logged_in"}
                           ELSE logged
    /\ UNCHANGED <<file, loaded, storeVars, sessionVars, loginVars,
                   entry, req, rejected, launched, flowStarted, sessionEnd,
                   loginFlowVars, publishVars, raceVars>>

\* publish_handler.publish_content(...) (publish.py:109-119,
\* server.py:162-173): its own image check, then the flow on the page
EntryPublish ==
    /\ epc = "publish"
    /\ flowStarted' = TRUE
    /\ IF ~validate_images(req.images)
       THEN report' = "publish_failed"
       ELSE \E success \in BOOLEAN :
              report' = IF success THEN "published" ELSE "publish_failed"
    /\ logged' = logged \cup {report'}
    /\ epc' = "teardown"
    /\ UNCHANGED <<file, loaded, storeVars, sessionVars, loginVars,
                   entry, req, rejected, launched, navigated, is_logged_in,
                   sessionEnd, loginFlowVars, publishVars, raceVars>>

\* the steps of get_page's teardown, in the order of driver.py:60-67
TeardownSteps ==
    <<"context.cookies", "save_cookies", "page.close", "context.close",
      "browser.close">>

\* `except Exception as e` of the entry point (server.py:175-178,
\* publish.py:128-130): the error is logged and becomes the report
entry_except(pending) == "error"

\* the body of `async with get_page()` is left by return or sys.exit and
\* get_page's finally blocks run (driver.py:58-67).  The step that raises,
\* if any, skips the rest of the inner finally; browser.close is called in
\* every case and takes page and context with it unless it is the step
\* that raises.  The exception leaves the async with and reaches the
\* entry point's handler.
EntryTeardown ==
    /\ epc = "teardown"
    /\ \E fault \in {"none"} \cup
                     {TeardownSteps[i] : i \in DOMAIN TeardownSteps} :
         /\ sessionEnd' = CASE fault = "none"          -> "clean"
                             [] fault = "browser.close" -> "leaked"
                             [] OTHER                   -> "raised"
         /\ IF fault = "none"
            THEN UNCHANGED <<report, logged>>
            ELSE /\ report' = entry_except(report)
                 /\ logged' = logged \cup {"error"}
    /\ epc' = "done"
    /\ UNCHANGED <<file, loaded, storeVars, sessionVars, loginVars,
                   entry, req, rejected, launched, navigated, is_logged_in,
                   flowStarted, loginFlowVars, publishVars, raceVars>>

NextEntry ==
    \/ CliValidate \/ ToolValidate
    \/ EntryGetPage \/ EntryCheckLogin \/ EntryPublish \/ EntryTeardown

SpecEntry == InitEntry /\ [][NextEntry]_vars

\* the Publish Request conditions of the specification (section 3)
InvalidRequest(r) ==
    \/ strip(r.title) = <<>>
    \/ Len(r.title) > TitleMaxLen
    \/ strip(r.content) = <<>>
    \/ r.images = <<>>
    \/ \E i \in DOMAIN r.images :
         \/ ~exists(r.images[i])
         \/ ~is_file(r.images[i])
         \/ lower(r.images[i].suffix) \notin AllowedSuffixes

\* C8 (as claimed): at both publish entry points the validation rejects a
\* request exactly when the title is empty after trimming or longer than 40
\* characters, the content is empty after trimming, the image list is
\* empty, or some image path is missing, not a regular file or of an
\* unsupported extension.
C8_AsClaimed ==
    epc # "validate" => (rejected <=> InvalidRequest(req))

\* C9 (as claimed): for an invalid Publish Request no browser is launched
\* and no page navigation happens.
C9_AsClaimed ==
    InvalidRequest(req) => (~launched /\ ~navigated)

\* The CLI alone validates exactly the Publish Request conditions and never
\* launches a browser for an invalid request; the tool is what departs.
CliValidationExact ==
    (entry = "cli" /\ epc # "validate") =>
        /\ rejected <=> InvalidRequest(req)
        /\ InvalidRequest(req) => (~launched /\ ~navigated)

(***************************************************************************)
(* SpecLogin: XiaohongshuLogin.check_login_status (login.py:17-92).        *)
(* dom fixes, before the check runs, what the page would answer to every   *)
(* probe, whether or not the probe is ever made.                           *)
(***************************************************************************)
\* number of entries of user_indicators (login.py:56-62)
NumUserIndicators == 5

ProbeAnswers == {"match", "none", "raise"}

Doms ==
    [nav       : {"ok", "goto_raises", "load_state_raises"},
     primary   : ProbeAnswers,
     secondary : [1..NumUserIndicators -> ProbeAnswers],
     content   : {"keyword", "plain", "raise"},
     url       : {"login", "other", "raise"}]

InitLogin ==
    /\ LoginFlowIdle /\ PublishIdle /\ RaceIdle
    /\ file = NoFile /\ loaded = <<>>
    /\ StoreIdle /\ SessionIdle /\ EntryIdle
    /\ lpc = "goto" /\ dom \in Doms /\ probes = <<>> /\ sidx = 1
    /\ result = "none"

Probe(name) == probes' = Append(probes, name)
Return(b)   == result' = b /\ lpc' = "done"

\* await self.page.goto(self.base_url, timeout=15000) (login.py:28);
\* an exception is caught at lines 39-41
LoginGoto ==
    /\ lpc = "goto"
    /\ Probe("goto")
    /\ IF dom.nav = "goto_raises" THEN Return("false")
       ELSE lpc' = "load_state" /\ result' = result
    /\ UNCHANGED <<file, loaded, storeVars, sessionVars, entryVars, dom, sidx,
                   loginFlowVars, publishVars, raceVars>>

\* await self.page.wait_for_load_state("domcontentloaded"), sleep(2)
\* (login.py:31-34)
LoginLoadState_Uncaught ==
    /\ lpc = "load_state"
    /\ Probe("load_state")
    /\ IF dom.nav = "load_state_raises" THEN Return("raised")
       ELSE lpc' = "primary" /\ result' = result
    /\ UNCHANGED <<file, loaded, storeVars, sessionVars, entryVars, dom, sidx,
                   loginFlowVars, publishVars, raceVars>>

LoginLoadState ==
    /\ lpc = "load_state"
    /\ Probe("load_state")
    /\ IF dom.nav = "load_state_raises" THEN Return("false")
       ELSE lpc' = "primary" /\ result' = result
    /\ UNCHANGED <<file, loaded, storeVars, sessionVars, entryVars, dom, sidx,
                   loginFlowVars, publishVars, raceVars>>

\* method 1 (login.py:46-53)
ProbePrimary_Continue ==
    /\ lpc = "primary"
    /\ Probe("primary")
    /\ lpc' = "secondary" /\ result' = result
    /\ UNCHANGED <<file, loaded, storeVars, sessionVars, entryVars, dom, sidx,
                   loginFlowVars, publishVars, raceVars>>

ProbePrimary ==
    /\ lpc = "primary"
    /\ Probe("primary")
    /\ IF dom.primary = "match" THEN Return("true")
       ELSE lpc' = "secondary" /\ result' = result
    /\ UNCHANGED <<file, loaded, storeVars, sessionVars, entryVars, dom, sidx,
                   loginFlowVars, publishVars, raceVars>>

\* method 2, one turn of the loop over user_indicators (login.py:64-71)
ProbeSecondary_Uncaught ==
    /\ lpc = "secondary"
    /\ Probe("secondary")
    /\ IF dom.secondary[sidx] = "match"
       THEN Return("true") /\ sidx' = sidx
       ELSE IF dom.secondary[sidx] = "raise"
       THEN Return("false") /\ sidx' = sidx
       ELSE /\ result' = result
            /\ IF sidx = NumUserIndicators
               THEN lpc' = "content" /\ sidx' = sidx
               ELSE lpc' = "secondary" /\ sidx' = sidx + 1
    /\ UNCHANGED <<file, loaded, storeVars, sessionVars, entryVars, dom,
                   loginFlowVars, publishVars, raceVars>>

ProbeSecondary ==
    /\ lpc = "secondary"
    /\ Probe("secondary")
    /\ IF dom.secondary[sidx] = "match"
       THEN Return("true") /\ sidx' = sidx
       ELSE /\ result' = result
            /\ IF sidx = NumUserIndicators
               THEN lpc' = "content" /\ sidx' = sidx
               ELSE lpc' = "secondary" /\ sidx' = sidx + 1
    /\ UNCHANGED <<file, loaded, storeVars, sessionVars, entryVars, dom,
                   loginFlowVars, publishVars, raceVars>>

\* method 3 (login.py:73-80)
ProbeContent ==
    /\ lpc = "content"
    /\ Probe("content")
    /\ IF dom.content = "keyword" THEN Return("true")
       ELSE lpc' = "url" /\ result' = result
    /\ UNCHANGED <<file, loaded, storeVars, sessionVars, entryVars, dom, sidx,
                   loginFlowVars, publishVars, raceVars>>

\* method 4 and the final return (login.py:82-92): a login/signin URL
\* returns False at line 87, anything else (a read that raises included)
\* falls through to the return False of line 92
ProbeUrl_Decides ==
    /\ lpc = "url"
    /\ Probe("url")
    /\ IF dom.url = "login" THEN Return("false") ELSE Return("true")
    /\ UNCHANGED <<file, loaded, storeVars, sessionVars, entryVars, dom, sidx,
                   loginFlowVars, publishVars, raceVars>>

ProbeUrl ==
    /\ lpc = "url"
    /\ Probe("url")
    /\ IF dom.url = "login" THEN Return("false") ELSE Return("false")
    /\ UNCHANGED <<file, loaded, storeVars, sessionVars, entryVars, dom, sidx,
                   loginFlowVars, publishVars, raceVars>>

NextLogin ==
    \/ LoginGoto \/ LoginLoadState
    \/ ProbePrimary \/ ProbeSecondary \/ ProbeContent \/ ProbeUrl

SpecLogin == InitLogin /\ [][NextLogin]_vars

\* C10: when navigation succeeds and the primary indicator is present,
\* check_login_status returns true and no later probe (secondary selectors,
\* page content, URL) has been evaluated, whatever they would have answered.
C10_PrimaryShortCircuit ==
    (lpc = "done" /\ dom.nav = "ok" /\ dom.primary = "match") =>
        /\ result = "true"
        /\ probes = <<"goto", "load_state", "primary">>

\* C10 witness: the check returned true on the primary indicator of a page
\* on which every other heuristic would have said "not logged in".
C10_Witness ==
    /\ lpc = "done" /\ dom.nav = "ok" /\ dom.primary = "match"
    /\ \A i \in 1..NumUserIndicators : dom.secondary[i] = "none"
    /\ dom.content = "plain" /\ dom.url = "login"
    /\ result = "true"

\* The probes of the heuristic chain in the order of the code: the primary
\* indicator, the five user indicators, the page content, the URL.
ChainLen == NumUserIndicators + 3

ChainOrder ==
    [k \in 1..ChainLen |->
        IF k = 1 THEN "primary"
        ELSE IF k <= NumUserIndicators + 1 THEN "secondary"
        ELSE IF k = NumUserIndicators + 2 THEN "content"
        ELSE "url"]

\* what the page answers to the k-th probe of the chain
ChainAnswer(k) ==
    IF k = 1 THEN dom.primary
    ELSE IF k <= NumUserIndicators + 1 THEN dom.secondary[k - 1]
    ELSE IF k = NumUserIndicators + 2
         THEN (IF dom.content = "keyword" THEN "match"
               ELSE IF dom.content = "raise" THEN "raise" ELSE "none")
    ELSE (IF dom.url = "raise" THEN "raise" ELSE "none")

\* the positive probes are all but the URL check
PositiveProbes == 1..(ChainLen - 1)

\* number of chain probes evaluated so far (goto and load_state precede them)
ChainProbed == IF Len(probes) > 2 THEN Len(probes) - 2 ELSE 0

\* C11: when goto or the load-state wait of check_login_status fails, the
\* check returns false, nothing is raised to the caller, and no probe of
\* the heuristic chain has been evaluated.
C11_NavigationFailure ==
    (lpc = "done" /\ dom.nav # "ok") =>
        /\ result = "false"
        /\ ChainProbed = 0
        /\ probes = IF dom.nav = "goto_raises" THEN <<"goto">>
                    ELSE <<"goto", "load_state">>

\* C11 witness: the load-state wait failed on a page whose primary
\* indicator would have matched, and the check returned false.
C11_Witness ==
    /\ lpc = "done" /\ dom.nav = "load_state_raises"
    /\ dom.primary = "match"
    /\ result = "false" /\ probes = <<"goto", "load_state">>

\* C17: in the heuristic chain a probe that raises is a non-match of that
\* probe only: the next probe of the chain is still evaluated, a later
\* matching positive probe still makes the check return true, and a URL
\* read that raises ends the chain with false, not with an exception.
C17_ProbeExceptionIsNonMatch ==
    (lpc = "done" /\ dom.nav = "ok") =>
        \A k \in 1..ChainLen :
            (/\ ChainAnswer(k) = "raise"
             /\ \A j \in 1..(k - 1) : ChainAnswer(j) # "match")
            => /\ ChainProbed >= (IF k < ChainLen THEN k + 1 ELSE k)
               /\ result \in {"true", "false"}
               /\ (\E m \in PositiveProbes : m > k /\ ChainAnswer(m) = "match")
                      => result = "true"

\* C17 witness: the primary query, every user-indicator query raised, and
\* the page content, read afterwards, held a keyword: the check is true.
C17_Witness ==
    /\ lpc = "done" /\ dom.nav = "ok"
    /\ dom.primary = "raise"
    /\ \A i \in 1..NumUserIndicators : dom.secondary[i] = "raise"
    /\ dom.content = "keyword"
    /\ result = "true"

\* C18: after a successful navigation the check returns true iff one of
\* the positive probes matches; the probes are evaluated in the fixed order
\* primary, five user indicators, page content, URL, up to and including
\* the first match; the URL check changes nothing: it is only reached with
\* no positive match, and the result is then false whatever the URL is.
C18_ChainResult ==
    (lpc = "done" /\ dom.nav = "ok") =>
        LET matching == {k \in PositiveProbes : ChainAnswer(k) = "match"}
            last     == IF matching = {} THEN ChainLen
                        ELSE CHOOSE k \in matching :
                                 \A j \in matching : k <= j
        IN  /\ result = (IF matching = {} THEN "false" ELSE "true")
            /\ ChainProbed = last
            /\ \A k \in 1..last : probes[k + 2] = ChainOrder[k]
            /\ probes[1] = "goto" /\ probes[2] = "load_state"

\* C18 witness: no positive probe matched, the URL is not a login URL, and
\* the check, having read the URL, returned false.
C18_Witness ==
    /\ lpc = "done" /\ dom.nav = "ok"
    /\ \A k \in PositiveProbes : ChainAnswer(k) # "match"
    /\ dom.url = "other"
    /\ probes[Len(probes)] = "url"
    /\ result = "false"

(***************************************************************************)
(* SpecLoginFlow: XiaohongshuLogin.login (login.py:94-134), with the       *)
(* check_login_status it calls running as in SpecLogin.  Every page call   *)
(* of login() itself may raise.                                            *)
(***************************************************************************)
InitLoginFlow ==
    /\ file = NoFile /\ loaded = <<>>
    /\ StoreIdle /\ SessionIdle /\ EntryIdle /\ LoginIdle /\ PublishIdle
    /\ RaceIdle
    /\ loginPc = "goto" /\ loginCalls = <<>> /\ loginEvent = "none"
    /\ loginResult = "none"

LoginCall(name) == loginCalls' = Append(loginCalls, name)

LoginReturn(b, why) ==
    /\ loginResult' = b /\ loginEvent' = why /\ loginPc' = "done"

\* except Exception as e: ... return False (login.py:132-134)
login_except_Propagates == "raised"

login_except == "false"

\* await self.page.goto(self.base_url) (login.py:105)
FlowGoto ==
    /\ loginPc = "goto"
    /\ LoginCall("goto")
    /\ \E raises \in BOOLEAN :
          IF ~raises
          THEN loginPc' = "load_state" /\ UNCHANGED <<loginEvent, loginResult>>
          ELSE LoginReturn(login_except, "goto_raised")
    /\ UNCHANGED <<file, loaded, storeVars, sessionVars, entryVars, loginVars,
                   publishVars, raceVars>>

\* await self.page.wait_for_load_state("networkidle"), sleep(2)
\* (login.py:106-109)
FlowLoadState ==
    /\ loginPc = "load_state"
    /\ LoginCall("wait_for_load_state")
    /\ \E raises \in BOOLEAN :
          IF ~raises
          THEN loginPc' = "check" /\ UNCHANGED <<loginEvent, loginResult>>
          ELSE LoginReturn(login_except, "load_state_raised")
    /\ UNCHANGED <<file, loaded, storeVars, sessionVars, entryVars, loginVars,
                   publishVars, raceVars>>

\* the call of self.check_login_status() at login.py:112: the check starts
\* on whatever the page holds at that moment
FlowCallCheck ==
    /\ loginPc = "check" /\ lpc = "idle"
    /\ LoginCall("check_login_status")
    /\ lpc' = "goto" /\ dom' \in Doms /\ probes' = <<>> /\ sidx' = 1
    /\ UNCHANGED <<file, loaded, storeVars, sessionVars, entryVars, result,
                   loginPc, loginEvent, loginResult, publishVars, raceVars>>

\* if await self.check_login_status(): return True (login.py:112-114)
FlowCheckReturn_AlwaysWait ==
    /\ loginPc = "check" /\ lpc = "done"
    /\ loginPc' = "wait" /\ UNCHANGED <<loginEvent, loginResult>>
    /\ UNCHANGED <<file, loaded, storeVars, sessionVars, entryVars, loginVars,
                   loginCalls, publishVars, raceVars>>

FlowCheckReturn ==
    /\ loginPc = "check" /\ lpc = "done"
    /\ IF result = "true"
       THEN LoginReturn("true", "already")
       ELSE IF result = "raised"
       THEN LoginReturn(login_except, "check_raised")
       ELSE loginPc' = "wait" /\ UNCHANGED <<loginEvent, loginResult>>
    /\ UNCHANGED <<file, loaded, storeVars, sessionVars, entryVars, loginVars,
                   loginCalls, publishVars, raceVars>>

\* await self.page.wait_for_selector(self.login_indicator, timeout=300000)
\* (login.py:120-130): the indicator appears, the wait times out, or the
\* call raises something else, which only the outer handler catches
FlowWait ==
    /\ loginPc = "wait"
    /\ LoginCall("wait_for_selector")
    /\ \E outcome \in {"appeared", "timeout", "wait_raised"} :
          CASE outcome = "appeared" -> LoginReturn("true", outcome)
            [] outcome = "timeout"  -> LoginReturn("false", outcome)
            [] OTHER                -> LoginReturn(login_except, outcome)
    /\ UNCHANGED <<file, loaded, storeVars, sessionVars, entryVars, loginVars,
                   publishVars, raceVars>>

NextLoginFlow ==
    \/ FlowGoto \/ FlowLoadState \/ FlowCallCheck \/ FlowCheckReturn
    \/ FlowWait
    \/ LoginGoto \/ LoginLoadState
    \/ ProbePrimary \/ ProbeSecondary \/ ProbeContent \/ ProbeUrl

SpecLoginFlow == InitLoginFlow /\ [][NextLoginFlow]_vars

\* C12: in login(), once the login-state check has reported authenticated,
\* login returns true at once: its last call is the check, and the wait
\* for the authenticated indicator (wait_for_selector, 300 s) never starts.
C12_AlreadyAuthenticated ==
    (lpc = "done" /\ result = "true") =>
        /\ loginPc \in {"check", "done"}
        /\ loginCalls[Len(loginCalls)] = "check_login_status"
        /\ \A i \in 1..Len(loginCalls) : loginCalls[i] # "wait_for_selector"
        /\ loginPc = "done" => loginResult = "true"

\* C12 witness: login() has returned true on the strength of the check.
C12_Witness ==
    /\ loginPc = "done" /\ lpc = "done" /\ result = "true"
    /\ loginResult = "true" /\ loginEvent = "already"

\* C13: login() never raises and returns a boolean on every path: true
\* when the authenticated indicator appears within the wait, false when
\* the wait times out, false when navigation or any other step raises.
C13_LoginReturnsBoolean ==
    loginPc = "done" =>
        /\ loginResult \in {"true", "false"}
        /\ loginEvent = "appeared" => loginResult = "true"
        /\ loginEvent = "timeout" => loginResult = "false"
        /\ loginEvent \in {"goto_raised", "load_state_raised", "wait_raised"}
              => loginResult = "false"
        /\ loginEvent # "none"

\* C13 witness: the check said not authenticated, the wait for the
\* indicator raised something other than a timeout, and login() returned
\* false.
C13_Witness ==
    /\ loginPc = "done" /\ result = "false"
    /\ loginEvent = "wait_raised" /\ loginResult = "false"

(***************************************************************************)
(* SpecPublish: XiaohongshuPublish.publish_content                         *)
(* (xiaohongshu/publish.py:18-407), one flow on a page handed in by the    *)
(* caller.  Every awaited page call may raise; a selector wait may also    *)
(* time out.  plog lists the page calls in the order they are made,        *)
(* pmarks the waits that were satisfied and the actions that completed.    *)
(* An exception message is the list of its wrappers, outermost first,      *)
(* followed by its cause.                                                  *)
(***************************************************************************)
\* tab elements the enumeration of div.creator-tab can return
MaxTabs == 2
\* input elements the polling can find on the page
MaxInputs == 2
\* p elements the placeholder search can find on the page
MaxParagraphs == 1

\* len(specific_selectors) (publish.py:106-110)
NumSpecificSelectors == 3
\* range(15) (publish.py:197)
PollIterations == 15
\* len(edit_indicators) (publish.py:185-194)
NumEditIndicators == 8
\* len(title_selectors) (publish.py:250-259)
NumTitleSelectors == 8
\* range(5), the ancestor walk (publish.py:365)
MaxAncestors == 5

\* the flow looks at what a path is on disk, never at its suffix
PublishImages == {ImgPng, ImgMissing, ImgDir}
PublishArgs == SeqsUpTo(PublishImages, MaxImages)

InitPublish ==
    /\ RaceIdle
    /\ file = NoFile /\ loaded = <<>>
    /\ StoreIdle /\ SessionIdle /\ EntryIdle /\ LoginIdle /\ LoginFlowIdle
    /\ ppc = "validate" /\ image_paths \in PublishArgs
    /\ plog = <<>> /\ psel = 1 /\ attempt = 0 /\ pmarks = {} /\ tabs = 0
    /\ pollInputs = <<>> /\ pfailAt = "none" /\ pfail = <<>>
    /\ title_input = 0 /\ p_elements = <<>> /\ content_element = "none"
    /\ presult = "none"

\* the queries that a loop over selector candidates repeats
LoopCalls == {"tab.query_selector", "tab.text_content",
              "poll.query_selector", "title.wait_for_selector"}

\* the flow makes the page calls names, in this order; consecutive turns
\* of a loop that repeat one query are listed once (psel counts them)
PageCall(names) ==
    plog' = IF /\ plog # <<>> /\ plog[Len(plog)] = Head(names)
               /\ Head(names) \in LoopCalls
            THEN plog \o Tail(names)
            ELSE plog \o names
Mark(m)         == pmarks' = pmarks \cup {m}

\* except Exception as e: logger.error(...); return False (publish.py:52-54)
publish_except_Propagates == "raised"

publish_except == "false"

\* an exception leaves the stage with message msg and reaches the handler
\* of publish_content
StageFails(stage, msg) ==
    /\ pfailAt' = stage /\ pfail' = msg
    /\ presult' = publish_except /\ ppc' = "done"

NotPublish == <<file, loaded, storeVars, sessionVars, entryVars, loginVars,
                loginFlowVars, raceVars>>

\* if not self._validate_images(image_paths): return False (publish.py:34-35)
PubValidate ==
    /\ ppc = "validate"
    /\ IF validate_images(image_paths)
       THEN /\ ppc' = "goto" /\ Mark("validated")
            /\ UNCHANGED <<pfailAt, presult>>
       ELSE /\ ppc' = "done" /\ presult' = "false" /\ pfailAt' = "validate"
            /\ UNCHANGED pmarks
    /\ UNCHANGED <<NotPublish, fillVars, image_paths, plog, psel, attempt, tabs,
                   pollInputs, pfail>>

\* await self.page.goto(self.publish_url, timeout=60000) (publish.py:79)
NavGoto ==
    /\ ppc = "goto"
    /\ PageCall(<<"goto">>)
    /\ \E raises \in BOOLEAN :
          IF ~raises
          THEN ppc' = "nav_load_state" /\ UNCHANGED <<pfailAt, pfail, presult>>
          ELSE StageFails("navigate", <<"engine">>)
    /\ UNCHANGED <<NotPublish, fillVars, image_paths, psel, attempt, pmarks,
                   tabs, pollInputs>>

\* await self.page.wait_for_load_state("domcontentloaded") (publish.py:80)
NavLoadState ==
    /\ ppc = "nav_load_state"
    /\ PageCall(<<"wait_for_load_state">>)
    /\ \E raises \in BOOLEAN :
          IF ~raises
          THEN ppc' = "nav_upload_area" /\ UNCHANGED <<pfailAt, pfail, presult>>
          ELSE StageFails("navigate", <<"engine">>)
    /\ UNCHANGED <<NotPublish, fillVars, image_paths, psel, attempt, pmarks,
                   tabs, pollInputs>>

\* wait_for_selector("div.upload-content", timeout=15000), sleep(1)
\* (publish.py:84-91): a timeout is re-raised with its own message, any
\* other exception passes through
NavWaitUploadArea ==
    /\ ppc = "nav_upload_area"
    /\ PageCall(<<"wait_for_selector:upload-content">>)
    /\ \E outcome \in {"visible", "timeout", "raise"} :
          CASE outcome = "visible" ->
                  /\ ppc' = "tab_specific" /\ psel' = 1
                  /\ Mark("upload_area")
                  /\ UNCHANGED <<pfailAt, pfail, presult>>
            [] outcome = "timeout" ->
                  /\ StageFails("navigate", <<"upload-content wait timed out">>)
                  /\ UNCHANGED <<psel, pmarks>>
            [] OTHER ->
                  /\ StageFails("navigate", <<"engine">>)
                  /\ UNCHANGED <<psel, pmarks>>
    /\ UNCHANGED <<NotPublish, fillVars, image_paths, attempt, tabs,
                   pollInputs>>

\* _click_upload_tab, one turn of the loop over specific_selectors
\* (publish.py:112-121): query the selector, click the element if there is
\* one; a click that succeeds ends the stage, anything else moves on
TabSpecific ==
    /\ ppc = "tab_specific"
    /\ \E outcome \in {"none", "raise", "clicked", "click_raised"} :
          /\ PageCall(IF outcome \in {"clicked", "click_raised"}
                      THEN <<"tab.query_selector", "tab.click">>
                      ELSE <<"tab.query_selector">>)
          /\ IF outcome = "clicked"
             THEN ppc' = "upload_wait" /\ psel' = 1 /\ Mark("tab_clicked")
             ELSE /\ UNCHANGED pmarks
                  /\ IF psel = NumSpecificSelectors
                     THEN ppc' = "tab_all" /\ psel' = 1
                     ELSE ppc' = ppc /\ psel' = psel + 1
    /\ UNCHANGED <<NotPublish, fillVars, image_paths, attempt, tabs, pollInputs,
                   pfailAt, pfail, presult>>

\* tab_elements = await self.page.query_selector_all("div.creator-tab")
\* (publish.py:124-125); an exception is caught at lines 152-153 and the
\* stage ends
TabQueryAll ==
    /\ ppc = "tab_all"
    /\ PageCall(<<"tab.query_selector_all">>)
    /\ \E raises \in BOOLEAN, n \in 0..MaxTabs :
          IF ~raises /\ n > 0
          THEN ppc' = "tab_text" /\ tabs' = n /\ psel' = 1
          ELSE ppc' = "upload_wait" /\ tabs' = 0 /\ psel' = 1
    /\ UNCHANGED <<NotPublish, fillVars, image_paths, attempt, pmarks,
                   pollInputs, pfailAt, pfail, presult>>

\* one turn of the loop over tab_elements (publish.py:127-148): read the
\* text within one second, click the element whose text holds the label
TabText ==
    /\ ppc = "tab_text"
    /\ \E outcome \in {"timeout", "raise", "other", "clicked", "click_raised"} :
          /\ PageCall(IF outcome \in {"clicked", "click_raised"}
                      THEN <<"tab.text_content", "tab.click">>
                      ELSE <<"tab.text_content">>)
          /\ IF outcome = "clicked"
             THEN ppc' = "upload_wait" /\ psel' = 1 /\ Mark("tab_clicked")
             ELSE /\ UNCHANGED pmarks
                  /\ IF psel = tabs
                     THEN ppc' = "upload_wait" /\ psel' = 1
                     ELSE ppc' = ppc /\ psel' = psel + 1
    /\ UNCHANGED <<NotPublish, fillVars, image_paths, attempt, tabs, pollInputs,
                   pfailAt, pfail, presult>>

\* upload_input = await self.page.wait_for_selector(".upload-input",
\* timeout=10000) (publish.py:162), failures re-raised at lines 172-175
UploadWaitInput_TimeoutIgnored ==
    /\ ppc = "upload_wait"
    /\ PageCall(<<"wait_for_selector:upload-input">>)
    /\ \E outcome \in {"visible", "timeout", "raise"} :
          CASE outcome \in {"visible", "timeout"} ->
                  /\ ppc' = "set_files"
                  /\ IF outcome = "visible" THEN Mark("upload_input")
                     ELSE Mark("upload_input_timeout")
                  /\ UNCHANGED <<pfailAt, pfail, presult>>
            [] OTHER ->
                  /\ StageFails("upload", <<"upload images failed", "engine">>)
                  /\ UNCHANGED pmarks
    /\ UNCHANGED <<NotPublish, fillVars, image_paths, psel, attempt, tabs,
                   pollInputs>>

UploadWaitInput ==
    /\ ppc = "upload_wait"
    /\ PageCall(<<"wait_for_selector:upload-input">>)
    /\ \E outcome \in {"visible", "timeout", "raise"} :
          CASE outcome = "visible" ->
                  /\ ppc' = "set_files" /\ Mark("upload_input")
                  /\ UNCHANGED <<pfailAt, pfail, presult>>
            [] outcome = "timeout" ->
                  /\ StageFails("upload", <<"upload input wait timed out">>)
                  /\ Mark("upload_input_timeout")
            [] OTHER ->
                  /\ StageFails("upload", <<"upload images failed", "engine">>)
                  /\ UNCHANGED pmarks
    /\ UNCHANGED <<NotPublish, fillVars, image_paths, psel, attempt, tabs,
                   pollInputs>>

\* await upload_input.set_input_files(image_paths) (publish.py:166), then
\* _wait_for_upload_complete starts: sleep(3), first iteration
UploadSetFiles ==
    /\ ppc = "set_files"
    /\ PageCall(<<"set_input_files">>)
    /\ \E raises \in BOOLEAN :
          IF ~raises
          THEN /\ ppc' = "poll" /\ attempt' = 1 /\ psel' = 1
               /\ Mark("files_set")
               /\ UNCHANGED <<pfailAt, pfail, presult>>
          ELSE /\ StageFails("upload", <<"upload images failed", "engine">>)
               /\ UNCHANGED <<attempt, psel, pmarks>>
    /\ UNCHANGED <<NotPublish, fillVars, image_paths, tabs, pollInputs>>

\* _fill_content (publish.py:230-235): the title first, then the body
fill_content_steps_Swapped == <<"body_ql", "title_info">>

fill_content_steps == <<"title_info", "body_ql">>

\* where the flow goes when a step of _fill_content has completed
NextFillStep(step) ==
    IF fill_content_steps[1] = step THEN fill_content_steps[2]
    ELSE "submit_wait"

\* the type attribute of an input element: "untyped" when it has none
InputTypes == {"file", "text", "untyped"}
InputLists == SeqsUpTo(InputTypes, MaxInputs)

\* what lines 212-216 are meant to compute: every input that has a type
\* attribute is a file input
all_file_typed(inputs) ==
    \A i \in DOMAIN inputs : inputs[i] # "untyped" => inputs[i] = "file"

\* what lines 212-216 compute: the argument of all() is a generator
\* expression with await in it, that is an asynchronous generator, which
\* all() cannot iterate: TypeError, whatever the inputs are
file_inputs_only(inputs) == "TypeError"

\* _wait_for_upload_complete, one query of the loop over edit_indicators
\* (publish.py:200-208)
PollIndicator ==
    /\ ppc = "poll"
    /\ PageCall(<<"poll.query_selector">>)
    /\ \E outcome \in {"none", "raise", "element"} :
          IF outcome = "element"
          THEN /\ ppc' = fill_content_steps[1] /\ psel' = 1
               /\ Mark("editor_ready")
          ELSE /\ IF outcome = "raise" THEN Mark("poll_query_raised")
                  ELSE UNCHANGED pmarks
               /\ IF psel = NumEditIndicators
                  THEN ppc' = "poll_inputs" /\ psel' = 1
                  ELSE ppc' = ppc /\ psel' = psel + 1
    /\ UNCHANGED <<NotPublish, fillVars, image_paths, attempt, tabs, pollInputs,
                   pfailAt, pfail, presult>>

\* the file-input check that ends an iteration (publish.py:211-222); an
\* exception here leaves _wait_for_upload_complete and is re-raised by
\* _upload_images at lines 174-175
PollInputs_Swallowed ==
    /\ ppc = "poll_inputs"
    /\ PageCall(<<"poll.query_selector_all:input">>)
    /\ \E raises \in BOOLEAN, inputs \in InputLists :
          /\ pollInputs' = IF raises THEN pollInputs ELSE inputs
          /\ ppc' = fill_content_steps[1]
          /\ pmarks' = pmarks \cup (IF raises THEN {"poll_check_raised"}
                                     ELSE {"inputs_listed",
                                           "poll_check_raised"})
          /\ UNCHANGED <<attempt, pfailAt, pfail, presult>>
    /\ UNCHANGED <<NotPublish, fillVars, image_paths, psel, tabs>>

PollInputs ==
    /\ ppc = "poll_inputs"
    /\ PageCall(<<"poll.query_selector_all:input">>)
    /\ \E raises \in BOOLEAN, inputs \in InputLists :
          IF raises
          THEN /\ StageFails("upload", <<"upload images failed", "engine">>)
               /\ Mark("poll_check_raised")
               /\ UNCHANGED <<attempt, pollInputs>>
          ELSE /\ pollInputs' = inputs
               /\ CASE file_inputs_only(inputs) = "TypeError" ->
                         /\ StageFails("upload",
                                       <<"upload images failed", "TypeError">>)
                         /\ pmarks' = pmarks \cup {"inputs_listed",
                                                    "poll_check_raised"}
                         /\ UNCHANGED attempt
                    [] file_inputs_only(inputs) = "False" ->
                         /\ ppc' = fill_content_steps[1]
                         /\ pmarks' = pmarks \cup {"inputs_listed",
                                                    "left_upload_view"}
                         /\ UNCHANGED <<attempt, pfailAt, pfail, presult>>
                    [] OTHER ->
                         /\ UNCHANGED <<pfailAt, pfail, presult>>
                         /\ IF attempt = PollIterations
                            THEN /\ ppc' = fill_content_steps[1]
                                 /\ pmarks' = pmarks \cup {"inputs_listed",
                                                            "poll_exhausted"}
                                 /\ UNCHANGED attempt
                            ELSE /\ ppc' = "poll" /\ attempt' = attempt + 1
                                 /\ Mark("inputs_listed")
    /\ UNCHANGED <<NotPublish, fillVars, image_paths, psel, tabs>>

FillTitleFails(cause) ==
    StageFails("title", <<"fill content failed", "fill title failed", cause>>)

FillBodyFails(cause) ==
    StageFails("body", <<"fill content failed", "fill body failed", cause>>)

\* _fill_title: current_url, page_title = await self.page.title()
\* (publish.py:244-247)
TitleInfo ==
    /\ ppc = "title_info"
    /\ PageCall(<<"title.page_title">>)
    /\ \E raises \in BOOLEAN :
          IF ~raises
          THEN /\ ppc' = "title_candidates" /\ psel' = 1
               /\ UNCHANGED <<pfailAt, pfail, presult>>
          ELSE FillTitleFails("engine") /\ UNCHANGED psel
    /\ UNCHANGED <<NotPublish, fillVars, image_paths, attempt, pmarks, tabs,
                   pollInputs>>

\* one turn of the loop over title_selectors (publish.py:262-271):
\* wait_for_selector(selector, timeout=3000); only a timeout moves on to
\* the next candidate
TitleCandidate_NoBreak ==
    /\ ppc = "title_candidates"
    /\ PageCall(<<"title.wait_for_selector">>)
    /\ \E outcome \in {"found", "timeout", "raise"} :
          CASE outcome \in {"found", "timeout"} ->
                  /\ title_input' = IF outcome = "found" THEN psel
                                    ELSE title_input
                  /\ IF outcome = "found" THEN Mark("title_found")
                     ELSE UNCHANGED pmarks
                  /\ UNCHANGED <<pfailAt, pfail, presult>>
                  /\ IF psel = NumTitleSelectors
                     THEN /\ psel' = psel
                          /\ ppc' = IF title_input' # 0 THEN "title_fill"
                                    ELSE "title_missing"
                     ELSE ppc' = ppc /\ psel' = psel + 1
            [] OTHER ->
                  /\ FillTitleFails("engine")
                  /\ UNCHANGED <<psel, pmarks, title_input>>
    /\ UNCHANGED <<NotPublish, p_elements, content_element, image_paths,
                   attempt, tabs, pollInputs>>

TitleCandidate ==
    /\ ppc = "title_candidates"
    /\ PageCall(<<"title.wait_for_selector">>)
    /\ \E outcome \in {"found", "timeout", "raise"} :
          CASE outcome = "found" ->
                  /\ ppc' = "title_fill" /\ Mark("title_found")
                  /\ title_input' = psel
                  /\ UNCHANGED <<psel, pfailAt, pfail, presult>>
            [] outcome = "timeout" ->
                  /\ UNCHANGED <<title_input, pfailAt, pfail, presult>>
                  /\ IF psel = NumTitleSelectors
                     THEN /\ ppc' = "title_missing" /\ psel' = psel
                          /\ Mark("title_exhausted")
                     ELSE /\ ppc' = ppc /\ psel' = psel + 1
                          /\ UNCHANGED pmarks
            [] OTHER ->
                  /\ FillTitleFails("engine")
                  /\ UNCHANGED <<psel, pmarks, title_input>>
    /\ UNCHANGED <<NotPublish, p_elements, content_element, image_paths,
                   attempt, tabs, pollInputs>>

\* no candidate appeared (publish.py:273-288): the inputs are listed for
\* the log and the stage raises
TitleMissing ==
    /\ ppc = "title_missing"
    /\ PageCall(<<"title.query_selector_all:input">>)
    /\ \E raises \in BOOLEAN :
          FillTitleFails(IF raises THEN "engine"
                         ELSE "no title selector found")
    /\ UNCHANGED <<NotPublish, fillVars, image_paths, psel, attempt, pmarks,
                   tabs, pollInputs>>

\* await title_input.fill(title), sleep(1) (publish.py:291-295)
TitleFill ==
    /\ ppc = "title_fill"
    /\ PageCall(<<"title.fill">>)
    /\ \E raises \in BOOLEAN :
          IF ~raises
          THEN /\ ppc' = NextFillStep("title_info") /\ Mark("title_filled")
               /\ UNCHANGED <<psel, pfailAt, pfail, presult>>
          ELSE FillTitleFails("engine") /\ UNCHANGED <<psel, pmarks>>
    /\ UNCHANGED <<NotPublish, fillVars, image_paths, attempt, tabs,
                   pollInputs>>

\* a p element as the placeholder search sees it: whether its
\* data-placeholder holds the label, and how many levels up its nearest
\* ancestor with role textbox is (0: it has none)
Paragraphs ==
    [placeholder : {"label", "other", "none"},
     textboxAt   : 0..(MaxAncestors + 1)]

\* _find_textbox_by_placeholder (publish.py:354-379): TRUE when it returns
\* an element
find_textbox_by_placeholder_Unbounded(ps) ==
    \E i \in DOMAIN ps :
        /\ ps[i].placeholder = "label"
        /\ ps[i].textboxAt >= 1

find_textbox_by_placeholder(ps) ==
    \E i \in DOMAIN ps :
        /\ ps[i].placeholder = "label"
        /\ ps[i].textboxAt \in 1..MaxAncestors

\* _find_content_element, way 1: wait_for_selector("div.ql-editor",
\* timeout=3000); any exception is passed over (publish.py:321-327)
BodyQl ==
    /\ ppc = "body_ql"
    /\ PageCall(<<"body.wait_for_selector:ql-editor">>)
    /\ \E outcome \in {"found", "timeout", "raise"} :
          CASE outcome = "found" ->
                  /\ ppc' = "body_fill" /\ Mark("body_found")
                  /\ content_element' = "ql-editor"
            [] outcome = "timeout" ->
                  /\ ppc' = "body_placeholder"
                  /\ UNCHANGED <<pmarks, content_element>>
            [] OTHER ->
                  /\ ppc' = "body_placeholder" /\ Mark("body_way_raised")
                  /\ UNCHANGED content_element
    /\ UNCHANGED <<NotPublish, title_input, p_elements, image_paths, psel,
                   attempt, tabs, pollInputs, pfailAt, pfail, presult>>

\* way 2: the placeholder search (publish.py:330-336, 354-379); an
\* exception anywhere in it makes it return None
BodyPlaceholder ==
    /\ ppc = "body_placeholder"
    /\ PageCall(<<"body.query_selector_all:p">>)
    /\ \E raises \in BOOLEAN, ps \in SeqsUpTo(Paragraphs, MaxParagraphs) :
          /\ p_elements' = IF raises THEN <<>> ELSE ps
          /\ CASE raises ->
                    /\ ppc' = "body_textarea" /\ Mark("body_way_raised")
                    /\ UNCHANGED content_element
              [] ~raises /\ find_textbox_by_placeholder(ps) ->
                    /\ ppc' = "body_fill" /\ Mark("body_found")
                    /\ content_element' = "placeholder"
              [] OTHER ->
                    /\ ppc' = "body_textarea"
                    /\ UNCHANGED <<pmarks, content_element>>
    /\ UNCHANGED <<NotPublish, title_input, image_paths, psel, attempt, tabs,
                   pollInputs, pfailAt, pfail, presult>>

\* way 3: wait_for_selector("textarea", timeout=3000) (publish.py:339-345);
\* with no element found _fill_description raises (publish.py:311-315)
BodyTextarea ==
    /\ ppc = "body_textarea"
    /\ PageCall(<<"body.wait_for_selector:textarea">>)
    /\ \E outcome \in {"found", "timeout", "raise"} :
          IF outcome = "found"
          THEN /\ ppc' = "body_fill" /\ Mark("body_found")
               /\ content_element' = "textarea"
               /\ UNCHANGED <<pfailAt, pfail, presult>>
          ELSE /\ FillBodyFails("content input not found")
               /\ UNCHANGED <<pmarks, content_element>>
    /\ p_elements' = <<>>
    /\ UNCHANGED <<NotPublish, title_input, image_paths, psel, attempt, tabs,
                   pollInputs>>

\* await content_element.fill(content), sleep(1) (publish.py:306-310)
BodyFill ==
    /\ ppc = "body_fill"
    /\ PageCall(<<"body.fill">>)
    /\ \E raises \in BOOLEAN :
          IF ~raises
          THEN /\ ppc' = NextFillStep("body_ql") /\ Mark("body_filled")
               /\ UNCHANGED <<pfailAt, pfail, presult>>
          ELSE FillBodyFails("engine") /\ UNCHANGED pmarks
    /\ p_elements' = <<>>
    /\ UNCHANGED <<NotPublish, title_input, content_element, image_paths, psel,
                   attempt, tabs, pollInputs>>

\* _submit_publish: sleep(1), wait_for_selector("div.submit
\* div.d-button-content", timeout=10000) (publish.py:387-395, 404-407)
SubmitWait ==
    /\ ppc = "submit_wait"
    /\ PageCall(<<"submit.wait_for_selector">>)
    /\ \E outcome \in {"found", "timeout", "raise"} :
          CASE outcome = "found" ->
                  /\ ppc' = "submit_click" /\ Mark("submit_found")
                  /\ UNCHANGED <<pfailAt, pfail, presult>>
            [] outcome = "timeout" ->
                  /\ StageFails("submit", <<"submit button wait timed out">>)
                  /\ UNCHANGED pmarks
            [] OTHER ->
                  /\ StageFails("submit", <<"submit failed", "engine">>)
                  /\ UNCHANGED pmarks
    /\ UNCHANGED <<NotPublish, fillVars, image_paths, psel, attempt, tabs,
                   pollInputs>>

\* await submit_button.click(), sleep(3), and the return True of
\* publish_content (publish.py:397-402, 49-50)
SubmitClick_IgnoresFailure ==
    /\ ppc = "submit_click"
    /\ PageCall(<<"submit.click">>)
    /\ \E raises \in BOOLEAN :
          /\ ppc' = "done" /\ presult' = "true"
          /\ IF ~raises THEN Mark("submitted") ELSE UNCHANGED pmarks
          /\ UNCHANGED <<pfailAt, pfail>>
    /\ UNCHANGED <<NotPublish, fillVars, image_paths, psel, attempt, tabs,
                   pollInputs>>

SubmitClick ==
    /\ ppc = "submit_click"
    /\ PageCall(<<"submit.click">>)
    /\ \E raises \in BOOLEAN :
          IF ~raises
          THEN /\ ppc' = "done" /\ presult' = "true" /\ Mark("submitted")
               /\ UNCHANGED <<pfailAt, pfail>>
          ELSE /\ StageFails("submit", <<"submit failed", "engine">>)
               /\ UNCHANGED pmarks
    /\ UNCHANGED <<NotPublish, fillVars, image_paths, psel, attempt, tabs,
                   pollInputs>>

NextPublish ==
    \/ PubValidate
    \/ NavGoto \/ NavLoadState \/ NavWaitUploadArea
    \/ TabSpecific \/ TabQueryAll \/ TabText
    \/ UploadWaitInput \/ UploadSetFiles \/ PollIndicator \/ PollInputs
    \/ TitleInfo \/ TitleCandidate \/ TitleMissing \/ TitleFill
    \/ BodyQl \/ BodyPlaceholder \/ BodyTextarea \/ BodyFill
    \/ SubmitWait \/ SubmitClick

SpecPublish == InitPublish /\ [][NextPublish]_vars

\* the stage a page call belongs to, numbered as the flow lists them:
\* 1 navigate to the composer, 2 wait for the upload area, 3 tab selection,
\* 4 set the input files, 5 editor-readiness polling, 6 title fill,
\* 7 body fill, 8 submit click
StageRank(name) ==
    CASE name \in {"goto", "wait_for_load_state"} -> 1
      [] name = "wait_for_selector:upload-content" -> 2
      [] name \in {"tab.query_selector", "tab.click",
                   "tab.query_selector_all", "tab.text_content"} -> 3
      [] name \in {"wait_for_selector:upload-input", "set_input_files"} -> 4
      [] name \in {"poll.query_selector", "poll.query_selector_all:input"} -> 5
      [] name \in {"title.page_title", "title.wait_for_selector",
                   "title.query_selector_all:input", "title.fill"} -> 6
      [] name \in {"body.wait_for_selector:ql-editor",
                   "body.query_selector_all:p",
                   "body.wait_for_selector:textarea", "body.fill"} -> 7
      [] OTHER -> 8

\* the last stage whose page calls a flow that failed in stage st made
FailRank(st) ==
    CASE st = "validate" -> 0
      [] st = "navigate" -> 2
      [] st = "upload"   -> 5
      [] st = "title"    -> 6
      [] st = "body"     -> 7
      [] OTHER           -> 8

PCalled(name) == \E i \in 1..Len(plog) : plog[i] = name
PTimes(name)  == Cardinality({i \in 1..Len(plog) : plog[i] = name})
RankCalled(r) == \E i \in 1..Len(plog) : StageRank(plog[i]) = r

PollingEnded == pmarks \cap {"editor_ready", "left_upload_view",
                             "poll_exhausted"} # {}

\* the milestones of the fatal stages: image validation, navigation with
\* the upload-area wait, file upload, title fill, body fill, submit click
FatalMilestones ==
    {"validated", "upload_area", "upload_input", "files_set",
     "title_filled", "body_filled", "submitted"}

\* C14: publish_content returns true only if every fatal stage succeeded;
\* once a fatal stage has failed the flow is over with false, nothing was
\* raised to the caller, and the page calls made are those of the stages
\* up to the failed one: no call of a later stage was made.
C14_PipelineAborts ==
    /\ presult # "raised"
    /\ ppc = "done" => presult \in {"true", "false"}
    /\ presult = "true" => (FatalMilestones \subseteq pmarks /\ pfailAt = "none")
    /\ pfailAt # "none" =>
          /\ ppc = "done" /\ presult = "false"
          /\ "submitted" \notin pmarks
          /\ \A i \in 1..Len(plog) : StageRank(plog[i]) <= FailRank(pfailAt)

\* C14 witness: the title stage failed for want of a title input after the
\* files were uploaded; the flow returned false with no body or submit call.
C14_Witness ==
    /\ ppc = "done" /\ presult = "false" /\ pfailAt = "title"
    /\ pfail = <<"fill content failed", "fill title failed",
                 "no title selector found">>
    /\ "files_set" \in pmarks
    /\ ~RankCalled(7) /\ ~RankCalled(8)

\* messages that name the upload stage (publish.py:173, 175)
UploadStageMessages == {"upload input wait timed out", "upload images failed"}

\* C15: when the file-input selector does not appear within its bound, the
\* flow ends there with false: no files are set, no title or body call and
\* no submit call is made, and the logged failure names the upload stage.
C15_UploadInputTimeout ==
    "upload_input_timeout" \in pmarks =>
        /\ ppc = "done" /\ presult = "false"
        /\ pfailAt = "upload" /\ pfail[1] \in UploadStageMessages
        /\ plog[Len(plog)] = "wait_for_selector:upload-input"
        /\ ~PCalled("set_input_files")
        /\ ~RankCalled(5) /\ ~RankCalled(6) /\ ~RankCalled(7) /\ ~RankCalled(8)
        /\ pmarks \cap {"files_set", "title_filled", "body_filled",
                        "submitted"} = {}

\* C15 witness: the composer loaded, the tab was clicked, and the wait for
\* the file input timed out.
C15_Witness ==
    /\ "upload_input_timeout" \in pmarks /\ "tab_clicked" \in pmarks
    /\ ppc = "done" /\ presult = "false"
    /\ pfail = <<"upload input wait timed out">>

\* C16: the page calls of a flow occur stage by stage in the order
\* navigate, upload-area wait, tab selection, set input files, editor
\* polling, title fill, body fill, submit click: no call of an earlier
\* stage follows a call of a later one, no stage is skipped, the one-shot
\* actions happen at most once, and a stage makes its calls only after the
\* wait of the stage before it was satisfied or ran out.
C16_StageOrder ==
    /\ \A i, j \in 1..Len(plog) :
          i < j => StageRank(plog[i]) <= StageRank(plog[j])
    /\ \A r \in 2..8 : RankCalled(r) => RankCalled(r - 1)
    /\ \A name \in {"goto", "wait_for_load_state",
                    "wait_for_selector:upload-content",
                    "tab.query_selector_all",
                    "wait_for_selector:upload-input", "set_input_files",
                    "title.page_title", "title.fill", "body.fill",
                    "submit.wait_for_selector", "submit.click"} :
          PTimes(name) <= 1
    /\ RankCalled(3) => "upload_area" \in pmarks
    /\ PCalled("set_input_files") => "upload_input" \in pmarks
    /\ RankCalled(5) => "files_set" \in pmarks
    /\ RankCalled(6) => PollingEnded
    /\ PCalled("title.fill") => "title_found" \in pmarks
    /\ RankCalled(7) => "title_filled" \in pmarks
    /\ PCalled("body.fill") => "body_found" \in pmarks
    /\ RankCalled(8) => "body_filled" \in pmarks
    /\ PCalled("submit.click") => "submit_found" \in pmarks

\* C16 witness: a flow that clicked the tab, went through every stage and
\* returned true.
C16_Witness ==
    /\ ppc = "done" /\ presult = "true"
    /\ "tab_clicked" \in pmarks
    /\ \A r \in 1..8 : RankCalled(r)

\* C19: after a successful upload, when no editor-present selector matched
\* and the inputs listed by the polling are file-type only, the flow does
\* not fail in the upload stage: the polling runs out of iterations and the
\* flow goes on to the title stage.
C19_AsClaimed ==
    ("inputs_listed" \in pmarks /\ "editor_ready" \notin pmarks
        /\ pollInputs # <<>>
        /\ \A i \in DOMAIN pollInputs : pollInputs[i] = "file") =>
        /\ pfailAt # "upload"
        /\ ppc \notin {"poll", "poll_inputs"} => "poll_exhausted" \in pmarks

\* C20: the polling ends after at most 15 iterations, and it ends only
\* because an editor-present selector matched, because an input that is not
\* file-type was seen, or because the 15 iterations are used up: while the
\* inputs are file-type only and nothing matches it goes on.
C20_AsClaimed ==
    /\ attempt <= PollIterations
    /\ ("files_set" \in pmarks /\ ppc \notin {"poll", "poll_inputs"}
           /\ pfail # <<"upload images failed", "engine">>) =>
          \/ "editor_ready" \in pmarks
          \/ "left_upload_view" \in pmarks /\ ~all_file_typed(pollInputs)
          \/ "poll_exhausted" \in pmarks /\ attempt = PollIterations

\* C21: the tab stage is never fatal and clicks at most one tab: while the
\* flow is in the stage it has not failed, at most one click is issued, the
\* first specific selector that matches is clicked and ends the stage, and
\* the enumeration of the tab elements is only made when no specific
\* selector matched, that is, when no click was issued before it.
C21_AsClaimed ==
    /\ (plog # <<>> /\ StageRank(plog[Len(plog)]) = 3) => pfailAt = "none"
    /\ PTimes("tab.click") <= 1
    /\ \A i, j \in 1..Len(plog) :
          (i < j /\ plog[j] = "tab.query_selector_all") => plog[i] # "tab.click"

\* What holds of the tab stage: no failure of the flow is ever raised in
\* it, and at most one click succeeds, which ends the stage.
TabStageNeverFatal ==
    /\ (plog # <<>> /\ StageRank(plog[Len(plog)]) = 3) => pfailAt = "none"
    /\ pfailAt # "tab"
    /\ ("tab_clicked" \in pmarks /\ RankCalled(4)) =>
          \E i \in 1..Len(plog) :
              /\ plog[i] = "tab.click"
              /\ StageRank(plog[i + 1]) = 4

\* C22: the title stage tries its candidates in the order of the list and
\* holds, when it fills, the first candidate that appeared: every candidate
\* before it timed out and none after it was tried; the title is filled
\* into that one, once.  When all candidates timed out the stage fails:
\* no title fill, no call of the body stage, no call of the submit stage,
\* and the flow returns false.
C22_TitleFirstMatch ==
    /\ title_input \in 0..NumTitleSelectors
    /\ ppc = "title_fill" => (title_input = psel /\ title_input # 0)
    /\ PCalled("title.fill") =>
          (title_input = psel /\ title_input # 0 /\ PTimes("title.fill") = 1)
    /\ "title_exhausted" \in pmarks =>
          /\ psel = NumTitleSelectors /\ title_input = 0
          /\ ppc \in {"title_missing", "done"}
          /\ ~PCalled("title.fill") /\ "title_filled" \notin pmarks
          /\ ~RankCalled(7) /\ ~RankCalled(8)
          /\ ppc = "done" => (presult = "false" /\ pfailAt = "title")

\* C22 witness: the first two candidates timed out, the third appeared and
\* the title was filled into it.
C22_Witness ==
    /\ "title_filled" \in pmarks /\ title_input = 3
    /\ PTimes("title.fill") = 1

\* the call of plog that every call named b comes after
CalledBefore(a, b) ==
    \A j \in 1..Len(plog) :
        plog[j] = b => \E i \in 1..(j - 1) : plog[i] = a

\* C23: the body stage looks for its target in the order rich-text editor,
\* placeholder search, generic textarea, each at most once; the body is
\* filled into the first target found: a way is tried only when the ways
\* before it found nothing or raised, and no way after the one that found
\* the target is tried.  The placeholder search finds a target only from a
\* paragraph that carries the label and has a textbox ancestor within
\* MaxAncestors levels.  When no way finds a target the stage fails: no
\* body fill, no call of the submit stage, and the flow returns false.
C23_BodyFirstTarget ==
    /\ CalledBefore("body.wait_for_selector:ql-editor",
                    "body.query_selector_all:p")
    /\ CalledBefore("body.query_selector_all:p",
                    "body.wait_for_selector:textarea")
    /\ \A w \in {"body.wait_for_selector:ql-editor",
                 "body.query_selector_all:p",
                 "body.wait_for_selector:textarea"} : PTimes(w) <= 1
    /\ content_element = "ql-editor" =>
          /\ PCalled("body.wait_for_selector:ql-editor")
          /\ ~PCalled("body.query_selector_all:p")
          /\ ~PCalled("body.wait_for_selector:textarea")
    /\ content_element = "placeholder" =>
          /\ PCalled("body.query_selector_all:p")
          /\ ~PCalled("body.wait_for_selector:textarea")
          /\ ppc = "body_fill" =>
                \E i \in DOMAIN p_elements :
                    /\ p_elements[i].placeholder = "label"
                    /\ p_elements[i].textboxAt >= 1
                    /\ p_elements[i].textboxAt <= MaxAncestors
    /\ content_element = "textarea" =>
          PCalled("body.wait_for_selector:textarea")
    /\ ppc = "body_fill" => content_element # "none"
    /\ PCalled("body.fill") =>
          (content_element # "none" /\ PTimes("body.fill") = 1)
    /\ (PCalled("body.wait_for_selector:textarea")
            /\ content_element = "none") =>
          /\ ppc = "done" /\ presult = "false" /\ pfailAt = "body"
          /\ ~PCalled("body.fill") /\ "body_filled" \notin pmarks
          /\ ~RankCalled(8)

\* C23 witness: a way raised, the search fell through to the generic
\* textarea, and the body was filled into it.
C23_Witness ==
    /\ "body_way_raised" \in pmarks
    /\ content_element = "textarea"
    /\ "body_filled" \in pmarks

\* C24: the submit button is clicked at most once, and the submit stage is
\* entered only after the title and the body were filled.  A click that
\* went through ends the flow with true, the click being the last page
\* call of the flow; the flow returns true in no other way.  When the
\* submit button does not appear or the click fails the flow returns false.
C24_SubmitOnce ==
    /\ PTimes("submit.click") <= 1
    /\ RankCalled(8) =>
          ("title_filled" \in pmarks /\ "body_filled" \in pmarks)
    /\ "submitted" \in pmarks =>
          /\ ppc = "done" /\ presult = "true" /\ pfailAt = "none"
          /\ plog[Len(plog)] = "submit.click"
    /\ presult = "true" => "submitted" \in pmarks
    /\ (RankCalled(8) /\ ppc = "done" /\ "submitted" \notin pmarks) =>
          (presult = "false" /\ pfailAt = "submit")

\* C24 witness: the click went through and the flow returned true.
C24_Witness ==
    /\ "submitted" \in pmarks /\ presult = "true"
    /\ PTimes("submit.click") = 1

\* C24, second case reached: the click failed and the flow returned false.
C24_ClickFailed ==
    /\ PCalled("submit.click") /\ ppc = "done" /\ presult = "false"

\* C25: publish_content checks the image paths before it touches the page:
\* no page call is made before the check, and with an empty list, a path
\* that does not exist or a path that is not a regular file the flow is
\* over right after the check, with false and without any page call.
C25_ImagesCheckedFirst ==
    /\ ppc = "validate" => (plog = <<>> /\ pmarks = {})
    /\ (/\ ppc # "validate"
        /\ \/ image_paths = <<>>
           \/ \E i \in DOMAIN image_paths : image_paths[i].kind # "file") =>
          /\ ppc = "done" /\ presult = "false"
          /\ plog = <<>> /\ pmarks = {}

\* C25 witness: a list holding a directory was rejected by the check.
C25_Witness ==
    /\ ppc = "done" /\ presult = "false" /\ plog = <<>>
    /\ \E i \in DOMAIN image_paths : image_paths[i].kind = "dir"

\* what follows an abort of the flow in the upload stage: nothing of the
\* title, body and submit stages is called and the flow returns false
UploadStageAbort ==
    /\ ppc = "done" /\ presult = "false" /\ pfailAt = "upload"
    /\ pfail # <<>> /\ pfail[1] = "upload images failed"
    /\ ~RankCalled(6) /\ ~RankCalled(7) /\ ~RankCalled(8)
    /\ "title_filled" \notin pmarks /\ "body_filled" \notin pmarks
    /\ "submitted" \notin pmarks

\* C28 as stated: any exception raised while polling, in a query for an
\* edit indicator as well as in the check of the file inputs, aborts the
\* flow with an upload-stage failure.
C28_AsClaimed ==
    ("poll_query_raised" \in pmarks \/ "poll_check_raised" \in pmarks) =>
        /\ ~RankCalled(6) /\ ~RankCalled(7) /\ ~RankCalled(8)
        /\ presult # "true"
        /\ ppc = "done" => pfailAt = "upload"

\* C28 amended: an exception raised in the check of the file inputs
\* (listing the inputs, reading their type attribute) aborts the flow with
\* an upload-stage failure: no field is filled, no submit is attempted and
\* the flow returns false.  An exception raised by a query for an edit
\* indicator is passed over and aborts nothing.
C28_Amended ==
    "poll_check_raised" \in pmarks => UploadStageAbort

\* C28 witness: reading the inputs raised after they were listed and the
\* flow ended with an upload-stage failure.
C28_Witness ==
    /\ "poll_check_raised" \in pmarks /\ "inputs_listed" \in pmarks
    /\ pfailAt = "upload" /\ presult = "false"

\* how often name stands in the call log of the session
CallCount(name) == Len(SelectSeq(calls, LAMBDA c : c = name))

\* C26 (as claimed): a session in which nothing failed and which ended
\* with cookies to save has read the cookie file once, before the page
\* was yielded, and has written it once.
C26_AsClaimed ==
    (pc = "done" /\ faults = {} /\ exc = "none" /\ Yielded
        /\ current # <<>>) =>
        /\ CallCount("load_cookies") = 1
        /\ ~\E i \in DOMAIN After(calls, "yield") :
                After(calls, "yield")[i] = "load_cookies"
        /\ CallCount("save_cookies")
              + CallCount("save_current_cookies.save_cookies") = 1

\* what holds of the reads: every session that yields its page has called
\* load_cookies once and before the yield, and no session calls it twice.
OneLoadBeforeYield ==
    /\ CallCount("load_cookies") <= 1
    /\ Yielded =>
          /\ CallCount("load_cookies") = 1
          /\ ~\E i \in DOMAIN After(calls, "yield") :
                  After(calls, "yield")[i] = "load_cookies"

\* C29 (as claimed): at both publish entry points, when the login check
\* returned false the invocation reports not-logged-in, the publish flow
\* is not started, and the teardown of the session has run (browser.close
\* was called) when the invocation ends.
C29_AsClaimed ==
    /\ flowStarted => is_logged_in = "true"
    /\ (is_logged_in = "false" /\ epc = "done") =>
          /\ report = "not_logged_in" \/ "not_logged_in" \in logged
          /\ ~flowStarted
          /\ sessionEnd \in {"clean", "raised", "leaked"}

\* What holds at both entry points: the publish flow starts only after the
\* login check returned true, the teardown of the session is entered on
\* every way out of the body, and when no teardown step raises the
\* not-logged-in report stands and the session is closed.
LoginGate ==
    /\ flowStarted => is_logged_in = "true"
    /\ is_logged_in = "false" => ~flowStarted
    /\ (is_logged_in # "none" /\ epc = "done") => sessionEnd # "none"
    /\ (is_logged_in = "false" /\ sessionEnd = "clean") =>
          report = "not_logged_in"

(***************************************************************************)
(* SpecRace: two invocations at the same time, each in its own process     *)
(* with its own BrowserManager.get_page session (driver.py:19-67), on one  *)
(* cookie file.  No step fails.  save_cookies (cookies.py:26-27) is two    *)
(* steps on the file: open(.., 'w') empties it, and the text that          *)
(* json.dump produced is written from the start of the file when the       *)
(* with block closes it; nothing keeps the other process from running in   *)
(* between.                                                                *)
(***************************************************************************)
Sessions == {1, 2}

NewSession ==
    [pc |-> "launch", browser |-> 0, context |-> 0, page |-> 0,
     current |-> <<>>, cookies |-> <<>>]

RaceFiles == {NoFile, FileOf(json_dump(<<CookieSid>>))}

InitRace ==
    /\ file \in RaceFiles /\ loaded = <<>>
    /\ StoreIdle /\ SessionIdle /\ EntryIdle /\ LoginIdle /\ LoginFlowIdle
    /\ PublishIdle
    /\ sess = [i \in Sessions |-> NewSession]
    /\ handles = 0 /\ saveOrder = <<>>

NotRace == <<loaded, storeVars, sessionVars, entryVars, loginVars,
             loginFlowVars, publishVars>>

\* a write of toks through a file object opened with 'w': it starts at the
\* beginning of the file and replaces what is there, position by position
WriteAt(old, toks) ==
    toks \o SubSeq(old, Len(toks) + 1, Len(old))

\* playwright.chromium.launch (driver.py:37): a new engine process
RaceLaunch(i) ==
    /\ sess[i].pc = "launch"
    /\ handles' = handles + 1
    /\ sess' = [sess EXCEPT ![i].browser = handles + 1,
                            ![i].pc = "new_context"]
    /\ UNCHANGED <<file, saveOrder, NotRace>>

\* browser.new_context (driver.py:41-45)
RaceNewContext(i) ==
    /\ sess[i].pc = "new_context"
    /\ handles' = handles + 1
    /\ sess' = [sess EXCEPT ![i].context = handles + 1,
                            ![i].pc = "load_cookies"]
    /\ UNCHANGED <<file, saveOrder, NotRace>>

\* load_cookies and context.add_cookies (driver.py:48-50); records that
\* are not cookies make add_cookies raise, which leads to the outer finally
RaceLoadCookies(i) ==
    /\ sess[i].pc = "load_cookies"
    /\ LET L == load_cookies(file, TRUE)
       IN  IF \A k \in DOMAIN L : ValidCookie(L[k])
           THEN sess' = [sess EXCEPT ![i].cookies = L,
                                     ![i].pc = "new_page"]
           ELSE sess' = [sess EXCEPT ![i].pc = "close"]
    /\ UNCHANGED <<file, handles, saveOrder, NotRace>>

\* context.new_page and the yield (driver.py:54-57)
RaceNewPage(i) ==
    /\ sess[i].pc = "new_page"
    /\ handles' = handles + 1
    /\ sess' = [sess EXCEPT ![i].page = handles + 1, ![i].pc = "body"]
    /\ UNCHANGED <<file, saveOrder, NotRace>>

\* the caller's body: the site sets or drops cookies, then the body returns
RaceBody(i) ==
    /\ sess[i].pc = "body"
    /\ \E cs \in ContextCookieLists :
          sess' = [sess EXCEPT ![i].cookies = cs, ![i].pc = "capture"]
    /\ UNCHANGED <<file, handles, saveOrder, NotRace>>

\* current_cookies = await context.cookies(); if current_cookies:
\* (driver.py:60-61)
RaceCapture(i) ==
    /\ sess[i].pc = "capture"
    /\ sess' = [sess EXCEPT ![i].current = sess[i].cookies,
                            ![i].pc = IF SaveGuard(sess[i].cookies)
                                      THEN "save_open" ELSE "close"]
    /\ UNCHANGED <<file, handles, saveOrder, NotRace>>

\* save_cookies: open(self.cookie_file, 'w') (cookies.py:26)
RaceSaveOpen(i) ==
    /\ sess[i].pc = "save_open"
    /\ file' = FileOf(<<>>)
    /\ sess' = [sess EXCEPT ![i].pc = "save_write"]
    /\ UNCHANGED <<handles, saveOrder, NotRace>>

\* save_cookies: json.dump into the file object and the close that writes
\* the text out (cookies.py:26-27)
RaceSaveWrite(i) ==
    /\ sess[i].pc = "save_write"
    /\ file' = FileOf(WriteAt(file.data, json_dump(sess[i].current)))
    /\ saveOrder' = Append(saveOrder, i)
    /\ sess' = [sess EXCEPT ![i].pc = "close"]
    /\ UNCHANGED <<handles, NotRace>>

\* page.close, context.close, browser.close (driver.py:64-67)
RaceClose(i) ==
    /\ sess[i].pc = "close"
    /\ sess' = [sess EXCEPT ![i].pc = "done"]
    /\ UNCHANGED <<file, handles, saveOrder, NotRace>>

NextRace ==
    \E i \in Sessions :
        \/ RaceLaunch(i) \/ RaceNewContext(i) \/ RaceLoadCookies(i)
        \/ RaceNewPage(i) \/ RaceBody(i) \/ RaceCapture(i)
        \/ RaceSaveOpen(i) \/ RaceSaveWrite(i) \/ RaceClose(i)

SpecRace == InitRace /\ [][NextRace]_vars

RaceDone == \A i \in Sessions : sess[i].pc = "done"

\* the engine objects of session i
Handles(i) == {sess[i].browser, sess[i].context, sess[i].page} \ {0}

\* C27 (as claimed): two sessions at the same time use engine objects of
\* their own, and when both have finished the cookie file holds exactly
\* the list of the session whose save ended last.
C27_AsClaimed ==
    /\ \A i, j \in Sessions : i # j => Handles(i) \cap Handles(j) = {}
    /\ (RaceDone /\ saveOrder # <<>>) =>
          file = FileOf(json_dump(sess[saveOrder[Len(saveOrder)]].current))

\* What holds of two sessions at the same time: no engine object belongs
\* to both, and the file is written by nothing but the saves.
RaceOwnResources ==
    /\ \A i, j \in Sessions : i # j => Handles(i) \cap Handles(j) = {}
    /\ saveOrder = <<>> =>
          (file \in RaceFiles \/ file = FileOf(<<>>))

=============================================================================
